---- MODULE Spec2Model ----
(***************************************************************************)
(* WorkSync: the client state store (App handlers), the REST boundary      *)
(* (server.js routes) and the relational store (database.js tables).       *)
(*                                                                         *)
(* A table is the sequence of its rows in rowid order; a request in flight *)
(* is a record that carries the handler's position (pc) and its locals.    *)
(* One action is one handler step: a statement of the store together with  *)
(* the callback that runs when it has executed.                            *)
(***************************************************************************)
EXTENDS Integers, Sequences, FiniteSets, TLC

VARIABLES
    \* the store (database.js)
    projects,        \* table projects
    project_tasks,   \* table project_tasks
    research_notes,  \* table research_notes
    tasks,           \* table tasks
    ideas,           \* table ideas
    engagements,     \* table engagements
    notes,           \* table notes
    highlights,      \* table highlights
    calendar_events, \* table calendar_events
    useful_links,    \* table useful_links
    users,           \* table users
    settings,        \* table settings
    clock,           \* the day it is, and the day masterTasksList was computed
    \* requests in flight (server.js)
    projReqs,        \* POST /api/projects
    taskReqs,        \* POST /api/tasks
    ideaReqs,        \* POST /api/ideas
    convReqs,        \* POST /api/ideas/:id/convert-to-project
    engReqs,         \* POST /api/engagements, DELETE /api/engagements/:id
    noteReqs,        \* POST /api/notes
    restReqs,        \* POST of /api/highlights, /api/calendar, /api/links
    regReqs,         \* POST /api/auth/register
    incoming,        \* requests that authMiddleware has not seen yet
    authReply,       \* the last response of an auth route or of authMiddleware
    migration,       \* migrateToMultiTenancy: where the startup migration is
    reply,           \* the last response of an idea route
    \* the client state store (App)
    appTasks,        \* useState tasks
    appProjects,     \* useState projects
    appIdeas,        \* useState ideas
    converting,      \* IdeaBoard: the conversion the component is waiting for
    appEngagements,  \* useState engagements
    appOther,        \* useState highlights, events, links, notes, editingEngagement
    viewState,       \* useState viewState
    itemsToDelete,   \* useState itemsToDelete: null, or the ids to delete
    isAddModalOpen,  \* useState isAddModalOpen
    confirms,        \* the calls of handleConfirmDelete that are at their await
    last             \* the last handler call: its name, argument and API calls

\* SQL NULL, and JavaScript null / undefined, in a field that holds a string
NULL == "null"

\* the number of requests of one kind that may be in flight at once
MaxInFlight == 2

\* the number of conversions that may be in flight at once
MaxConverting == 1

Users == {"u1", "u2"}
ProjectIds == {"p1", "p2"}

\* JavaScript truthiness of a string field: x || fallback
Or(x, fallback) == IF x = "" \/ x = NULL THEN fallback ELSE x


Range(s) == {s[i] : i \in DOMAIN s}

(***************************************************************************)
(* Inputs: the objects a client may submit                                 *)
(***************************************************************************)
PT(id, content, isCompleted) ==
    [id |-> id, content |-> content, isCompleted |-> isCompleted]

RN(id, content) ==
    [id |-> id, date |-> "2024-01-01", content |-> content, createdAt |-> "c0"]

\* the child arrays that are submitted: <<ProjectTask array, ResearchNote array>>
ChildArrays ==
    { << <<>>, <<>> >>,
      << <<PT("t1", "a", FALSE)>>, <<RN("n1", "x")>> >>,
      << <<PT("t1", "b", TRUE), PT("t2", "a", FALSE)>>, <<>> >>,
      << <<PT("t2", "a", TRUE)>>, <<RN("n2", "y"), RN("n1", "x")>> >> }

InternalProject(id, name, projectTasks, researchNotes) ==
    [id |-> id, name |-> name, description |-> "d", status |-> "In Progress",
     startDate |-> "2024-01-01", dueDate |-> "", createdAt |-> "c0",
     tasks |-> projectTasks, researchNotes |-> researchNotes,
     sourceIdeaId |-> NULL, sourceIdeaTitle |-> NULL,
     sourceEngagementId |-> NULL, sourceEngagementName |-> NULL]

(***************************************************************************)
(* The store                                                               *)
(***************************************************************************)
\* INSERT OR REPLACE on a table whose primary key is id: the row that holds
\* the key is deleted and the new row gets the next rowid
InsertOrReplace(table, row) ==
    SelectSeq(table, LAMBDA r : r.id # row.id) \o <<row>>

\* INSERT on a table whose primary key is id: a row whose key is taken
\* violates the constraint and is not stored
Insert(table, row) ==
    IF \E i \in DOMAIN table : table[i].id = row.id THEN table
    ELSE Append(table, row)

RECURSIVE InsertAll(_, _)
InsertAll(table, rows) ==
    IF rows = <<>> THEN table
    ELSE InsertAll(Insert(table, Head(rows)), Tail(rows))

\* DELETE FROM <child table> WHERE projectId = ?
DeleteChildren(table, projectId) ==
    SelectSeq(table, LAMBDA r : r.projectId # projectId)

\* the flag encoding of a write: x ? 1 : 0
Flag(b) == IF b THEN 1 ELSE 0

\* NULL in an INTEGER column (the flags that are written are 0 and 1)
NullInt == -1

\* the coercion of a read with NULL taken for a number like any other
TruthyButForNull(x) == x # 0

\* the coercion of a read of a flag column: !!x
Truthy(x) == x # 0 /\ x # NullInt

(***************************************************************************)
(* JSON.stringify and JSON.parse                                           *)
(*                                                                         *)
(* A JSON value is tagged with its type: <<"str", s>>, <<"bool", b>>,      *)
(* <<"num", n>>, <<"arr", elements>>, <<"obj", members>> where a member is *)
(* <<key, value>> (an object keeps the order of its keys). A JSON text is  *)
(* the sequence of its tokens; the token of a string s is <<"s", s>>, the  *)
(* token of a number n is <<"n", n>>.                                      *)
(***************************************************************************)
JStr(s) == <<"str", s>>
JBool(b) == <<"bool", b>>
JNum(n) == <<"num", n>>
JArr(elements) == <<"arr", elements>>
JObj(members) == <<"obj", members>>

RECURSIVE JoinComma(_)
JoinComma(texts) ==
    IF texts = <<>> THEN <<>>
    ELSE IF Len(texts) = 1 THEN texts[1]
    ELSE texts[1] \o <<",">> \o JoinComma(Tail(texts))

RECURSIVE JSONstringify(_)
JSONstringify(v) ==
    CASE v[1] = "str"  -> << <<"s", v[2]>> >>
      [] v[1] = "bool" -> <<IF v[2] THEN "true" ELSE "false">>
      [] v[1] = "num"  -> << <<"n", v[2]>> >>
      [] v[1] = "arr"  ->
            <<"[">> \o JoinComma([i \in DOMAIN v[2] |-> JSONstringify(v[2][i])])
                   \o <<"]">>
      [] v[1] = "obj"  ->
            <<"{">> \o JoinComma([i \in DOMAIN v[2] |->
                          << <<"s", v[2][i][1]>>, ":" >> \o JSONstringify(v[2][i][2])])
                   \o <<"}">>

\* the parser: each operator takes the tokens left and returns
\* <<the value read, the tokens after it>>
RECURSIVE ParseValue(_), ParseElements(_, _), ParseMembers(_, _)
ParseValue(toks) ==
    LET t == Head(toks)
    IN  CASE t = "true"  -> <<JBool(TRUE), Tail(toks)>>
          [] t = "false" -> <<JBool(FALSE), Tail(toks)>>
          [] t = "["     ->
                IF Head(Tail(toks)) = "]" THEN <<JArr(<<>>), Tail(Tail(toks))>>
                ELSE ParseElements(Tail(toks), <<>>)
          [] t = "{"     ->
                IF Head(Tail(toks)) = "}" THEN <<JObj(<<>>), Tail(Tail(toks))>>
                ELSE ParseMembers(Tail(toks), <<>>)
          [] OTHER       ->
                IF t[1] = "n" THEN <<JNum(t[2]), Tail(toks)>>
                ELSE <<JStr(t[2]), Tail(toks)>>

\* (the value read is bound once, as the element of a singleton)
ParseElements(toks, acc) ==
    CHOOSE out \in
        { IF Head(e[2]) = "," THEN ParseElements(Tail(e[2]), Append(acc, e[1]))
          ELSE <<JArr(Append(acc, e[1])), Tail(e[2])>> :
            e \in {ParseValue(toks)} } : TRUE

ParseMembers(toks, acc) ==
    CHOOSE out \in
        { IF Head(e[2]) = ","
          THEN ParseMembers(Tail(e[2]), Append(acc, <<Head(toks)[2], e[1]>>))
          ELSE <<JObj(Append(acc, <<Head(toks)[2], e[1]>>)), Tail(e[2])>> :
            e \in {ParseValue(Tail(Tail(toks)))} } : TRUE

JSONparse(text) == ParseValue(text)[1]

\* the text of the empty array, '[]'
EmptyArrayText == <<"[", "]">>

\* JSON.stringify(x || []): what a write stores for a nested array
StoredArray(x) == JSONstringify(IF x = NULL THEN JArr(<<>>) ELSE x)

\* the column handed on as stored, without JSON.parse
ParsedArrayAsStored(column) ==
    IF column = NULL \/ column = <<>> THEN EmptyArrayText ELSE column

\* JSON.parse(column || '[]'): what a read returns for a nested array
ParsedArray(column) ==
    JSONparse(IF column = NULL \/ column = <<>> THEN EmptyArrayText ELSE column)

(***************************************************************************)
(* POST /api/projects                                                      *)
(***************************************************************************)
ProjectRow(userId, p) ==
    [id |-> p.id, userId |-> userId, name |-> p.name,
     description |-> p.description, status |-> p.status,
     startDate |-> p.startDate, dueDate |-> p.dueDate, createdAt |-> p.createdAt,
     sourceIdeaId |-> Or(p.sourceIdeaId, NULL),
     sourceIdeaTitle |-> Or(p.sourceIdeaTitle, NULL),
     sourceEngagementId |-> Or(p.sourceEngagementId, NULL),
     sourceEngagementName |-> Or(p.sourceEngagementName, NULL)]

ProjectTaskRow(p, t) ==
    [id |-> t.id, projectId |-> p.id, content |-> t.content,
     isCompleted |-> Flag(t.isCompleted)]

ResearchNoteRow(p, n) ==
    [id |-> n.id, projectId |-> p.id, content |-> n.content, date |-> n.date,
     createdAt |-> n.createdAt]

\* the child rows after the delete and the reinsert of the save of p
SyncProjectTasks(table, p) ==
    InsertAll(DeleteChildren(table, p.id),
              [i \in DOMAIN p.tasks |-> ProjectTaskRow(p, p.tasks[i])])

SyncResearchNotes(table, p) ==
    InsertAll(DeleteChildren(table, p.id),
              [i \in DOMAIN p.researchNotes |->
                   ResearchNoteRow(p, p.researchNotes[i])])

\* the request arrives: the handler queues the upsert of the parent row
ProjectReq(userId, p, pc) == [userId |-> userId, p |-> p, pc |-> pc]

\* the upsert of the parent row has run; its callback is due
PostProjectsParent(r) ==
    /\ r \in projReqs
    /\ r.pc = "parent"
    /\ projects' = InsertOrReplace(projects, ProjectRow(r.userId, r.p))
    /\ projReqs' = (projReqs \ {r}) \cup {ProjectReq(r.userId, r.p, "children")}
    /\ UNCHANGED <<project_tasks, research_notes>>

\* the callback: the serialized delete and reinsert of the children, and
\* the response
PostProjectsChildren(r) ==
    /\ r \in projReqs
    /\ r.pc = "children"
    /\ project_tasks' = SyncProjectTasks(project_tasks, r.p)
    /\ research_notes' = SyncResearchNotes(research_notes, r.p)
    /\ projReqs' = projReqs \ {r}
    /\ UNCHANGED projects

(***************************************************************************)
(* GET /api/projects                                                       *)
(***************************************************************************)
ListedProjectTask(t) ==
    [id |-> t.id, projectId |-> t.projectId, content |-> t.content,
     isCompleted |-> Truthy(t.isCompleted)]

ListedProject(p) ==
    [id |-> p.id, userId |-> p.userId, name |-> p.name,
     description |-> p.description, status |-> p.status,
     startDate |-> p.startDate, dueDate |-> p.dueDate, createdAt |-> p.createdAt,
     sourceIdeaId |-> p.sourceIdeaId, sourceIdeaTitle |-> p.sourceIdeaTitle,
     sourceEngagementId |-> p.sourceEngagementId,
     sourceEngagementName |-> p.sourceEngagementName,
     tasks |-> LET rows == SelectSeq(project_tasks, LAMBDA t : t.projectId = p.id)
               IN  [i \in DOMAIN rows |-> ListedProjectTask(rows[i])],
     researchNotes |-> SelectSeq(research_notes, LAMBDA n : n.projectId = p.id)]

GetProjects(userId) ==
    LET rows == SelectSeq(projects, LAMBDA p : p.userId = userId)
    IN  [i \in DOMAIN rows |-> ListedProject(rows[i])]

(***************************************************************************)
(* POST /api/tasks                                                         *)
(***************************************************************************)
TaskRow(userId, t) ==
    [id |-> t.id, userId |-> userId, content |-> t.content,
     isCompleted |-> Flag(t.isCompleted), type |-> t.type, date |-> t.date,
     createdAt |-> t.createdAt, isPriority |-> Flag(t.isPriority),
     subtasks |-> StoredArray(t.subtasks), engagementId |-> t.engagementId,
     projectId |-> NULL]

TaskReq(userId, t) == [userId |-> userId, t |-> t]

PostTasks(r) ==
    /\ r \in taskReqs
    /\ tasks' = InsertOrReplace(tasks, TaskRow(r.userId, r.t))
    /\ taskReqs' = taskReqs \ {r}

(***************************************************************************)
(* The client: App's task and project handlers                             *)
(***************************************************************************)
\* the user whose token the client sends
Me == "u1"

Task(id, content, isCompleted, projectId, projectName) ==
    [id |-> id, content |-> content, isCompleted |-> isCompleted,
     type |-> "daily", date |-> "2024-01-01", createdAt |-> "c0",
     isPriority |-> FALSE, subtasks |-> JArr(<<>>),
     engagementId |-> NULL, engagementName |-> NULL,
     projectId |-> projectId, projectName |-> projectName]

Call(api, body) == [api |-> api, body |-> body]

\* tick tells one handler call from the next: every call flips it
HandlerCall(op, arg, calls) ==
    [op |-> op, arg |-> arg, calls |-> calls, tick |-> 1 - last.tick]

\* saveTaskAPI, saveProjectAPI: the fetch is sent with the client's token
SaveTaskAPI(t) == taskReqs' = taskReqs \cup {TaskReq(Me, t)}

SaveProjectAPI(p) == projReqs' = projReqs \cup {ProjectReq(Me, p, "parent")}

InFlight == Cardinality(projReqs) + Cardinality(taskReqs)

HandleAddTask(task) ==
    /\ InFlight < MaxInFlight
    /\ appTasks' = <<task>> \o appTasks
    /\ SaveTaskAPI(task)
    /\ last' = HandlerCall("handleAddTask", task, <<Call("saveTaskAPI", task)>>)
    /\ UNCHANGED <<appProjects, projReqs>>

HandleAddProject(project) ==
    /\ InFlight < MaxInFlight
    /\ appProjects' = <<project>> \o appProjects
    /\ SaveProjectAPI(project)
    /\ last' = HandlerCall("handleAddProject", project,
                           <<Call("saveProjectAPI", project)>>)
    /\ UNCHANGED <<appTasks, taskReqs>>

\* pt => pt.id === updatedTask.id ? {...pt, isCompleted, content} : pt
UpdatedProjectTask(pt, updatedTask) ==
    IF pt.id = updatedTask.id
    THEN [pt EXCEPT !.isCompleted = updatedTask.isCompleted,
                    !.content = updatedTask.content]
    ELSE pt

\* p => p.id === updatedTask.projectId ? {...p, tasks: updatedProjectTasks} : p
UpdatedProject(p, updatedTask) ==
    IF p.id = updatedTask.projectId
    THEN [p EXCEPT !.tasks = [i \in DOMAIN p.tasks |->
                                  UpdatedProjectTask(p.tasks[i], updatedTask)]]
    ELSE p

\* the value of targetProject when the updater of setProjects has run over
\* prev: the update of the last project whose id matches, if any (as a
\* sequence of at most one project)
TargetProject(prev, updatedTask) ==
    LET hits == SelectSeq(prev, LAMBDA p : p.id = updatedTask.projectId)
    IN  IF hits = <<>> THEN <<>>
        ELSE <<UpdatedProject(hits[Len(hits)], updatedTask)>>

\* handleUpdateTask without the test of projectId: every task is treated as a
\* standalone task
HandleUpdateTaskNoDispatch(updatedTask, eager) ==
    /\ InFlight < MaxInFlight
    /\ appTasks' = [i \in DOMAIN appTasks |->
                        IF appTasks[i].id = updatedTask.id
                        THEN updatedTask ELSE appTasks[i]]
    /\ SaveTaskAPI(updatedTask)
    /\ last' = HandlerCall("handleUpdateTask", updatedTask,
                           <<Call("saveTaskAPI", updatedTask)>>)
    /\ UNCHANGED <<appProjects, projReqs>>

\* handleUpdateTask. The updater passed to setProjects assigns targetProject.
\* React calls an updater inside the setter only when the component has no
\* update pending (eager state); otherwise it queues the updater and calls it
\* at the next render, which is after line 148 has tested targetProject.
HandleUpdateTask(updatedTask, eager) ==
    /\ InFlight < MaxInFlight
    /\ IF updatedTask.projectId # NULL
       THEN LET targetProject ==
                    IF eager THEN TargetProject(appProjects, updatedTask) ELSE <<>>
            IN  /\ appProjects' =
                      [i \in DOMAIN appProjects |->
                          UpdatedProject(appProjects[i], updatedTask)]
                /\ IF targetProject # <<>>
                   THEN /\ SaveProjectAPI(targetProject[1])
                        /\ last' = HandlerCall("handleUpdateTask", updatedTask,
                              <<Call("saveProjectAPI", targetProject[1])>>)
                   ELSE /\ projReqs' = projReqs
                        /\ last' = HandlerCall("handleUpdateTask", updatedTask, <<>>)
                /\ UNCHANGED <<appTasks, taskReqs>>
       ELSE /\ appTasks' = [i \in DOMAIN appTasks |->
                                IF appTasks[i].id = updatedTask.id
                                THEN updatedTask ELSE appTasks[i]]
            /\ SaveTaskAPI(updatedTask)
            /\ last' = HandlerCall("handleUpdateTask", updatedTask,
                                   <<Call("saveTaskAPI", updatedTask)>>)
            /\ UNCHANGED <<appProjects, projReqs>>

\* new Date().toISOString().slice(0, 10) on each day of the model
Dates == <<"2024-01-01", "2024-01-02">>

\* the Task-shaped view of a ProjectTask
ProjectTaskView(p, pt, today) ==
    [id |-> pt.id, content |-> pt.content, isCompleted |-> pt.isCompleted,
     type |-> "daily", date |-> today, createdAt |-> p.createdAt,
     projectId |-> p.id, projectName |-> p.name]

RECURSIVE FlatMapTasks(_, _)
FlatMapTasks(ps, today) ==
    IF ps = <<>> THEN <<>>
    ELSE [i \in DOMAIN Head(ps).tasks |->
              ProjectTaskView(Head(ps), Head(ps).tasks[i], today)]
         \o FlatMapTasks(Tail(ps), today)

\* masterTasksList: the standalone tasks, then one view per ProjectTask.
\* useMemo keeps the value computed when tasks or projects last changed,
\* with today as it was then.
MasterTasksList == appTasks \o FlatMapTasks(appProjects, Dates[clock.memo])

\* a render after setTasks or setProjects recomputes masterTasksList
Recomputed == clock' = [clock EXCEPT !.memo = clock.now]

(***************************************************************************)
(* SpecTask: the task and project handlers of the client with the server   *)
(***************************************************************************)
AddedProjects ==
    { InternalProject("p1", "n1",
                      <<PT("t1", "a", FALSE), PT("t2", "a", FALSE)>>,
                      <<RN("n1", "x")>>) }

AddedTasks == { Task("s1", "a", FALSE, NULL, NULL) }

\* the tasks handed to onUpdateTask: {...task, <changed fields>} for a task
\* of masterTasksList as some render showed it: a standalone task, or the
\* view of a ProjectTask (of a project or a task that may be gone by now)
UpdatedTasks ==
    { Task("s1", c[1], c[2], NULL, NULL) : c \in {<<"a", FALSE>>, <<"b", TRUE>>} }
    \cup
    { Task(id, c[1], c[2], pid[1], pid[2]) :
        id \in {"t1", "t9"},
        c \in {<<"a", FALSE>>, <<"b", TRUE>>},
        pid \in {<<"p1", "n1">>, <<"p2", "n2">>} }

Ids(s) == {s[i].id : i \in DOMAIN s}

vars == <<projects, project_tasks, research_notes, tasks, ideas, engagements,
          notes, projReqs, taskReqs, ideaReqs, convReqs, engReqs, noteReqs,
          reply, appTasks, appProjects, appIdeas, converting, appEngagements,
          viewState, itemsToDelete, isAddModalOpen, confirms, last,
          highlights, calendar_events, useful_links, users, restReqs, regReqs,
          incoming, authReply, migration, appOther, settings, clock>>

\* no request in flight, the client as App constructs it
Idle ==
    /\ projReqs = {}
    /\ taskReqs = {}
    /\ ideaReqs = {}
    /\ convReqs = {}
    /\ engReqs = {}
    /\ noteReqs = {}
    /\ reply = [route |-> "none", to |-> <<>>, status |-> 0, body |-> <<>>]
    /\ appTasks = <<>>
    /\ appProjects = <<>>
    /\ appIdeas = <<>>
    /\ converting = <<>>
    /\ appEngagements = <<>>
    /\ viewState = [tab |-> "home", view |-> "dashboard", targetId |-> NULL]
    /\ itemsToDelete = NULL
    /\ isAddModalOpen = FALSE
    /\ confirms = {}
    /\ last = [op |-> "none", arg |-> NULL, calls |-> <<>>, tick |-> 0]

RestIdle ==
    /\ restReqs = {}
    /\ regReqs = {}
    /\ incoming = {}
    /\ authReply = [to |-> <<>>, status |-> 0, error |-> NULL]
    /\ migration = [pc |-> "done", user |-> NULL, next |-> 0]
    /\ appOther = [highlights |-> <<>>, events |-> <<>>, links |-> <<>>,
                   notes |-> <<>>, editingEngagement |-> <<>>]
    /\ clock = [now |-> 1, memo |-> 1]

\* the tables, queues and collections of the other entities, all empty
InitRest ==
    /\ RestIdle
    /\ highlights = <<>>
    /\ calendar_events = <<>>
    /\ useful_links = <<>>
    /\ users = <<>>
    /\ settings = <<>>

InitTask ==
    /\ InitRest
    /\ Idle
    /\ projects = <<>>
    /\ project_tasks = <<>>
    /\ research_notes = <<>>
    /\ tasks = <<>>
    /\ ideas = <<>>
    /\ engagements = <<>>
    /\ notes = <<>>

storeProj == <<projects, project_tasks, research_notes>>
appTask == <<appTasks, appProjects, last>>
\* what the idea routes and the idea board own
ideaVars == <<ideas, ideaReqs, convReqs, reply, appIdeas, converting>>
\* what the engagement routes and the engagement views own
engVars == <<engagements, engReqs, appEngagements, viewState, itemsToDelete,
             isAddModalOpen, confirms>>
noteVars == <<notes, noteReqs>>
\* what the highlight, calendar and link routes own
restVars == <<highlights, calendar_events, useful_links, restReqs>>
\* what registration and authMiddleware own
userVars == <<users, regReqs, incoming, authReply>>
otherVars == <<restVars, userVars, migration, appOther, settings, clock>>
\* the state that the task and project handlers never touch
notTask == <<ideaVars, engVars, noteVars, otherVars>>

NextTask ==
    \/ \E t \in AddedTasks :
          /\ t.id \notin Ids(appTasks)
          /\ HandleAddTask(t)
          /\ UNCHANGED <<storeProj, tasks, notTask>>
    \/ \E p \in AddedProjects :
          /\ p.id \notin Ids(appProjects)
          /\ HandleAddProject(p)
          /\ UNCHANGED <<storeProj, tasks, notTask>>
    \/ \E t \in UpdatedTasks, eager \in BOOLEAN :
          /\ HandleUpdateTask(t, eager)
          /\ UNCHANGED <<storeProj, tasks, notTask>>
    \/ \E r \in projReqs :
          /\ PostProjectsParent(r)
          /\ UNCHANGED <<tasks, taskReqs, appTask, notTask>>
    \/ \E r \in projReqs :
          /\ PostProjectsChildren(r)
          /\ UNCHANGED <<tasks, taskReqs, appTask, notTask>>
    \/ \E r \in taskReqs :
          /\ PostTasks(r)
          /\ UNCHANGED <<storeProj, projReqs, appTask, notTask>>

SpecTask == InitTask /\ [][NextTask]_vars

(***************************************************************************)
(* C1, C2: handleUpdateTask on the view of a ProjectTask                   *)
(***************************************************************************)
\* this step is a call of the handler op
Called(op) == last'.tick # last.tick /\ last'.op = op

HasProjectTask(ps, projectId, taskId) ==
    \E p \in Range(ps) :
        p.id = projectId /\ \E pt \in Range(p.tasks) : pt.id = taskId

\* project P with the content and isCompleted of its ProjectTask t.id set
\* to those of t, and nothing else changed
C1_Body(ps, t) ==
    LET P == CHOOSE p \in Range(ps) : p.id = t.projectId
    IN  [P EXCEPT !.tasks = [i \in DOMAIN P.tasks |->
            IF P.tasks[i].id = t.id
            THEN [P.tasks[i] EXCEPT !.content = t.content,
                                    !.isCompleted = t.isCompleted]
            ELSE P.tasks[i]]]

\* the save r has just run to its end
SaveCompletes(r) == r \in projReqs /\ r.pc = "children" /\ r \notin projReqs'

\* C1 (as claimed): handleUpdateTask(t), with t.projectId naming a project P of
\* the client collection that holds a ProjectTask t.id, always issues one
\* project upsert whose body is P with that ProjectTask's content and
\* isCompleted set to t's; and when a project upsert has run to its end, the
\* stored project holds every submitted ProjectTask with its content and flag.
C1_Claim ==
    [][ /\ (/\ Called("handleUpdateTask")
            /\ HasProjectTask(appProjects, last'.arg.projectId, last'.arg.id))
           => /\ last'.calls = <<Call("saveProjectAPI", C1_Body(appProjects, last'.arg))>>
              /\ ProjectReq(Me, C1_Body(appProjects, last'.arg), "parent") \in projReqs'
        /\ \A r \in projReqs :
             SaveCompletes(r)
             => \A pt \in Range(r.p.tasks) :
                    ProjectTaskRow(r.p, pt) \in Range(project_tasks')
      ]_vars

\* C2: handleUpdateTask(t) with t.projectId set leaves the standalone task
\* collection of the client alone and issues no task upsert, so that the
\* tasks table is left alone too, whether the project or its ProjectTask
\* exists or not.
C2_NoStandaloneWrite ==
    [][ (Called("handleUpdateTask") /\ last'.arg.projectId # NULL)
        => /\ appTasks' = appTasks
           /\ taskReqs' = taskReqs
           /\ tasks' = tasks
           /\ \A i \in DOMAIN last'.calls : last'.calls[i].api # "saveTaskAPI"
      ]_vars

\* C2 happens: the handler ran on the view of a ProjectTask whose project is
\* not in the collection, with a standalone task held by client and server
C2_Witness ==
    /\ last.op = "handleUpdateTask"
    /\ last.arg.projectId = "p2"
    /\ "p2" \notin Ids(appProjects)
    /\ appTasks # <<>>
    /\ tasks # <<>>

(***************************************************************************)
(* SpecProj: project saves sent straight to the REST boundary              *)
(***************************************************************************)
SubmittedProjects ==
    { InternalProject(id, "n", c[1], c[2]) : id \in ProjectIds, c \in ChildArrays }

SendProject(userId, p) ==
    /\ Cardinality(projReqs) < MaxInFlight
    /\ projReqs' = projReqs \cup {ProjectReq(userId, p, "parent")}
    /\ UNCHANGED storeProj

InitProj == InitTask

NextProj ==
    \/ \E p \in SubmittedProjects :
          /\ SendProject(Me, p)
          /\ UNCHANGED <<tasks, taskReqs, appTask, notTask>>
    \/ \E r \in projReqs :
          /\ PostProjectsParent(r)
          /\ UNCHANGED <<tasks, taskReqs, appTask, notTask>>
    \/ \E r \in projReqs :
          /\ PostProjectsChildren(r)
          /\ UNCHANGED <<tasks, taskReqs, appTask, notTask>>

SpecProj == InitProj /\ [][NextProj]_vars

\* the ProjectTask and the ResearchNote that a listed child row stands for
AsProjectTask(t) == PT(t.id, t.content, t.isCompleted)

AsResearchNote(n) ==
    [id |-> n.id, date |-> n.date, content |-> n.content, createdAt |-> n.createdAt]

\* GET /api/projects by the saver lists the project of r once, with exactly
\* the child arrays that r submitted
ReadsBack(r) ==
    LET hits == SelectSeq(GetProjects(r.userId), LAMBDA p : p.id = r.p.id)
    IN  /\ Len(hits) = 1
        /\ [i \in DOMAIN hits[1].tasks |-> AsProjectTask(hits[1].tasks[i])]
              = r.p.tasks
        /\ [i \in DOMAIN hits[1].researchNotes |->
                AsResearchNote(hits[1].researchNotes[i])] = r.p.researchNotes

\* C3 (as claimed): when a project save has run to its end, child writes
\* included, GET /api/projects by the saver returns the project with exactly
\* the submitted ProjectTask and ResearchNote arrays, whatever child rows
\* were stored before the save.
C3_Claim ==
    [][ \A r \in projReqs : SaveCompletes(r) => ReadsBack(r)' ]_vars

(***************************************************************************)
(* POST /api/ideas, GET /api/ideas                                         *)
(***************************************************************************)
IdeaIds == {"i1", "i2"}

IdeaEntry(id, content) ==
    JObj(<< <<"id", JStr(id)>>, <<"content", JStr(content)>>,
            <<"timestamp", JStr("c0")>> >>)

\* obj[key] of a JSON object that has the key
Member(obj, key) == SelectSeq(obj[2], LAMBDA m : m[1] = key)[1][2]

Idea(id, title, description, entries, status, engagement) ==
    [id |-> id, title |-> title, description |-> description,
     entries |-> entries, category |-> "General", priority |-> "Medium",
     status |-> status, createdAt |-> "c0", updatedAt |-> NULL,
     aiSummary |-> NULL, lastSummaryDate |-> NULL,
     engagementId |-> engagement[1], engagementName |-> engagement[2],
     convertedToProjectId |-> NULL]

\* i.entries && i.entries.length > 0 ? i.entries[0].content : (i.description || '')
IdeaDescription(i) ==
    IF i.entries # NULL /\ Len(i.entries[2]) > 0
    THEN Member(i.entries[2][1], "content")[2]
    ELSE Or(i.description, "")

IdeaRow(userId, i) ==
    [id |-> i.id, userId |-> userId, title |-> i.title,
     description |-> IdeaDescription(i), entries |-> StoredArray(i.entries),
     category |-> i.category, priority |-> i.priority, status |-> i.status,
     createdAt |-> i.createdAt, updatedAt |-> Or(i.updatedAt, NULL),
     aiSummary |-> Or(i.aiSummary, NULL),
     lastSummaryDate |-> Or(i.lastSummaryDate, NULL),
     engagementId |-> Or(i.engagementId, NULL),
     engagementName |-> Or(i.engagementName, NULL),
     convertedToProjectId |-> Or(i.convertedToProjectId, NULL)]

IdeaReq(userId, i) == [userId |-> userId, i |-> i]

\* res.status(status).json(body) to the request of userId about id; the body
\* is kept when it is a project
Reply(route, userId, id, status, body) ==
    [route |-> route, to |-> <<userId, id>>, status |-> status, body |-> body]

PostIdeas(r) ==
    /\ r \in ideaReqs
    /\ ideas' = InsertOrReplace(ideas, IdeaRow(r.userId, r.i))
    /\ ideaReqs' = ideaReqs \ {r}
    /\ reply' = Reply("POST /api/ideas", r.userId, r.i.id, 200, <<>>)

\* String.prototype.trim on the descriptions of the model
Trim(str) == IF str \in {"", " "} THEN "" ELSE str

\* the entries of a listed idea: the stored array, or the description as a
\* legacy entry when the array is empty and the description is not blank
ListedEntries(r) ==
    LET entries == ParsedArray(r.entries)
    IN  IF Len(entries[2]) = 0 /\ r.description # NULL /\ Trim(r.description) # ""
        THEN JArr(<< JObj(<< <<"id", JStr(<<"legacy-", r.id>>)>>,
                             <<"content", JStr(r.description)>>,
                             <<"timestamp", JStr(Or(r.createdAt, "now"))>> >>) >>)
        ELSE entries

ListedIdea(r) ==
    [id |-> r.id, userId |-> r.userId, title |-> r.title,
     description |-> r.description, entries |-> ListedEntries(r),
     category |-> r.category, priority |-> r.priority, status |-> r.status,
     createdAt |-> r.createdAt, updatedAt |-> r.updatedAt,
     aiSummary |-> r.aiSummary, lastSummaryDate |-> r.lastSummaryDate,
     engagementId |-> r.engagementId, engagementName |-> r.engagementName,
     convertedToProjectId |-> r.convertedToProjectId]

GetIdeas(userId) ==
    LET rows == SelectSeq(ideas, LAMBDA r : r.userId = userId)
    IN  [i \in DOMAIN rows |-> ListedIdea(rows[i])]

(***************************************************************************)
(* POST /api/ideas/:id/convert-to-project                                  *)
(***************************************************************************)
\* the ids that 'proj-' + Date.now() + '-' + <random> may produce
ConvIds == {"c1", "c2"}

\* new Date().toISOString(): <<the date (10 characters), the time>>
Clock == { <<"2024-05-05", "T10:00:00.000Z">> }

\* now.slice(0, 10)
Slice10(now) == now[1]

ProjectData(name, description, status, startDate, dueDate) ==
    [name |-> name, description |-> description, status |-> status,
     startDate |-> startDate, dueDate |-> dueDate]

\* a request without a body: every field is undefined
EmptyBody == ProjectData(NULL, NULL, NULL, NULL, NULL)

ConvReq(userId, ideaId, projectData, client) ==
    [userId |-> userId, ideaId |-> ideaId, projectData |-> projectData,
     client |-> client, pc |-> "lookup", idea |-> <<>>, projectId |-> NULL,
     now |-> <<>>]

\* the project built from the request body alone
ConvertedProjectNoDefaults(r) ==
    LET idea == r.idea[1]
        projectData == r.projectData
    IN  [id |-> r.projectId,
         name |-> projectData.name,
         description |-> projectData.description,
         status |-> projectData.status,
         startDate |-> projectData.startDate,
         dueDate |-> projectData.dueDate,
         createdAt |-> r.now,
         tasks |-> <<>>, researchNotes |-> <<>>,
         sourceIdeaId |-> idea.id, sourceIdeaTitle |-> idea.title,
         sourceEngagementId |-> Or(idea.engagementId, NULL),
         sourceEngagementName |-> Or(idea.engagementName, NULL)]

\* the project that the handler builds from the idea it has read
ConvertedProject(r) ==
    LET idea == r.idea[1]
        projectData == r.projectData
    IN  [id |-> r.projectId,
         name |-> Or(projectData.name, idea.title),
         description |-> Or(projectData.description, idea.description),
         status |-> Or(projectData.status, "Not Started"),
         startDate |-> Or(projectData.startDate, Slice10(r.now)),
         dueDate |-> Or(projectData.dueDate, ""),
         createdAt |-> r.now,
         tasks |-> <<>>, researchNotes |-> <<>>,
         sourceIdeaId |-> idea.id, sourceIdeaTitle |-> idea.title,
         sourceEngagementId |-> Or(idea.engagementId, NULL),
         sourceEngagementName |-> Or(idea.engagementName, NULL)]

\* the insert of the project without the source tracking columns
ConvertedProjectRowNoSource(r) ==
    LET p == ConvertedProject(r)
    IN  [id |-> p.id, userId |-> r.userId, name |-> p.name,
         description |-> p.description, status |-> p.status,
         startDate |-> p.startDate, dueDate |-> p.dueDate,
         createdAt |-> p.createdAt,
         sourceIdeaId |-> NULL, sourceIdeaTitle |-> NULL,
         sourceEngagementId |-> NULL, sourceEngagementName |-> NULL]

ConvertedProjectRow(r) ==
    LET p == ConvertedProject(r)
    IN  [id |-> p.id, userId |-> r.userId, name |-> p.name,
         description |-> p.description, status |-> p.status,
         startDate |-> p.startDate, dueDate |-> p.dueDate,
         createdAt |-> p.createdAt,
         sourceIdeaId |-> p.sourceIdeaId, sourceIdeaTitle |-> p.sourceIdeaTitle,
         sourceEngagementId |-> p.sourceEngagementId,
         sourceEngagementName |-> p.sourceEngagementName]

\* the update that keeps the link of an idea that is converted already
StampIdeasKeepFirst(table, projectId, ideaId, userId) ==
    [i \in DOMAIN table |->
        IF table[i].id = ideaId /\ table[i].userId = userId
        THEN [table[i] EXCEPT !.convertedToProjectId =
                                  Or(table[i].convertedToProjectId, projectId),
                              !.status = "Implemented"]
        ELSE table[i]]

\* UPDATE ideas SET convertedToProjectId = ?, status = 'Implemented'
\* WHERE id = ? AND userId = ?
StampIdeas(table, projectId, ideaId, userId) ==
    [i \in DOMAIN table |->
        IF table[i].id = ideaId /\ table[i].userId = userId
        THEN [table[i] EXCEPT !.convertedToProjectId = projectId,
                              !.status = "Implemented"]
        ELSE table[i]]

\* the response reaches the idea board that waits for it
Respond(r, status, body) ==
    /\ reply' = Reply("convert-to-project", r.userId, r.ideaId, status, body)
    /\ converting' =
          IF r.client /\ converting # <<>>
          THEN <<[converting[1] EXCEPT !.reply = <<[status |-> status, body |-> body]>>]>>
          ELSE converting

\* the lookup by id alone
ConvertLookupAnyUser(r) ==
    /\ r \in convReqs
    /\ r.pc = "lookup"
    /\ LET hits == SelectSeq(ideas, LAMBDA i : i.id = r.ideaId)
       IN  IF hits = <<>>
           THEN /\ convReqs' = convReqs \ {r}
                /\ Respond(r, 404, <<>>)
           ELSE /\ \E projectId \in ConvIds, now \in Clock :
                      convReqs' = (convReqs \ {r}) \cup
                          {[r EXCEPT !.pc = "insert", !.idea = <<hits[1]>>,
                                     !.projectId = projectId, !.now = now]}
                /\ UNCHANGED <<reply, converting>>
    /\ UNCHANGED <<projects, ideas>>

\* SELECT * FROM ideas WHERE id = ? AND userId = ?, and its callback
ConvertLookup(r) ==
    /\ r \in convReqs
    /\ r.pc = "lookup"
    /\ LET hits == SelectSeq(ideas, LAMBDA i : i.id = r.ideaId /\ i.userId = r.userId)
       IN  IF hits = <<>>
           THEN /\ convReqs' = convReqs \ {r}
                /\ Respond(r, 404, <<>>)
           ELSE /\ \E projectId \in ConvIds, now \in Clock :
                      convReqs' = (convReqs \ {r}) \cup
                          {[r EXCEPT !.pc = "insert", !.idea = <<hits[1]>>,
                                     !.projectId = projectId, !.now = now]}
                /\ UNCHANGED <<reply, converting>>
    /\ UNCHANGED <<projects, ideas>>

\* INSERT INTO projects, and its callback
ConvertInsert(r) ==
    /\ r \in convReqs
    /\ r.pc = "insert"
    /\ IF r.projectId \in {projects[i].id : i \in DOMAIN projects}
       THEN /\ convReqs' = convReqs \ {r}
            /\ Respond(r, 500, <<>>)
            /\ UNCHANGED projects
       ELSE /\ projects' = Append(projects, ConvertedProjectRow(r))
            /\ convReqs' = (convReqs \ {r}) \cup {[r EXCEPT !.pc = "update"]}
            /\ UNCHANGED <<reply, converting>>
    /\ UNCHANGED ideas

\* UPDATE ideas, and its callback: the response with the created project
ConvertUpdate(r) ==
    /\ r \in convReqs
    /\ r.pc = "update"
    /\ ideas' = StampIdeas(ideas, r.projectId, r.ideaId, r.userId)
    /\ convReqs' = convReqs \ {r}
    /\ Respond(r, 200, <<ConvertedProject(r)>>)
    /\ UNCHANGED projects

(***************************************************************************)
(* SpecConv: idea saves and conversions sent to the REST boundary          *)
(***************************************************************************)
SubmittedIdeas ==
    { Idea("i1", "T1", "d", JArr(<<IdeaEntry("e1", "x")>>), "New", <<NULL, NULL>>),
      Idea("i1", "T2", "d", JArr(<<>>), "Planned", <<"g1", "G1">>) }

\* the body that convertIdeaToProjectAPI is called with: { startDate }
ConvBodies == { ProjectData(NULL, NULL, NULL, "2024-02-02", NULL) }

SendIdea(userId, i) ==
    /\ Cardinality(ideaReqs) < MaxConverting
    /\ ideaReqs' = ideaReqs \cup {IdeaReq(userId, i)}
    /\ UNCHANGED <<ideas, convReqs, reply>>

SendConvert(userId, ideaId, projectData) ==
    /\ Cardinality(convReqs) < MaxConverting
    /\ convReqs' = convReqs \cup {ConvReq(userId, ideaId, projectData, FALSE)}
    /\ UNCHANGED <<ideas, ideaReqs, reply>>

\* the state that the idea routes never touch
notConv == <<project_tasks, research_notes, tasks, projReqs, taskReqs,
             appTasks, appProjects, appIdeas, last, engVars, noteVars,
             otherVars>>

InitConv == InitTask

NextConv ==
    \/ \E i \in SubmittedIdeas :
          /\ SendIdea(Me, i)
          /\ UNCHANGED <<projects, converting, notConv>>
    \/ \E userId \in Users, ideaId \in IdeaIds, projectData \in ConvBodies :
          /\ SendConvert(userId, ideaId, projectData)
          /\ UNCHANGED <<projects, converting, notConv>>
    \/ \E r \in ideaReqs :
          /\ PostIdeas(r)
          /\ UNCHANGED <<projects, convReqs, converting, notConv>>
    \/ \E r \in convReqs :
          /\ ConvertLookup(r)
          /\ UNCHANGED <<ideaReqs, notConv>>
    \/ \E r \in convReqs :
          /\ ConvertInsert(r)
          /\ UNCHANGED <<ideaReqs, notConv>>
    \/ \E r \in convReqs :
          /\ ConvertUpdate(r)
          /\ UNCHANGED <<ideaReqs, notConv>>

SpecConv == InitConv /\ [][NextConv]_vars

(***************************************************************************)
(* C4, C5, C8: what a conversion writes                                    *)
(***************************************************************************)
\* this step runs the statement that request r waits for
Runs(r) == r \in convReqs /\ r \notin convReqs'

RowsOf(table, id) == SelectSeq(table, LAMBDA row : row.id = id)

\* the rows of projects that were created from the idea
ProjectsFrom(table, ideaId) ==
    SelectSeq(table, LAMBDA row : row.sourceIdeaId = ideaId)

\* C4: a conversion of idea X of the requester that is answered 200 has added
\* exactly one row to projects, whose sourceIdeaId is X.id and whose
\* sourceIdeaTitle, sourceEngagementId and sourceEngagementName are those of
\* X as the request read it, and leaves X with convertedToProjectId = the id
\* of that row and status "Implemented".
C4_Conversion ==
    [][ \A r \in convReqs :
          /\ (Runs(r) /\ r.pc = "lookup") => projects' = projects
          /\ (Runs(r) /\ r.pc = "insert")
                => \/ /\ Len(projects') = Len(projects) + 1
                      /\ SubSeq(projects', 1, Len(projects)) = projects
                      /\ RowsOf(projects, r.projectId) = <<>>
                      /\ projects'[Len(projects')].id = r.projectId
                      /\ [r EXCEPT !.pc = "update"] \in convReqs'
                   \/ /\ projects' = projects
                      /\ reply'.to = <<r.userId, r.ideaId>>
                      /\ reply'.status = 500
          /\ (Runs(r) /\ r.pc = "update")
                => /\ reply'.status = 200
                   /\ reply'.body[1].id = r.projectId
                   /\ projects' = projects
                   /\ Len(RowsOf(projects', r.projectId)) = 1
                   /\ LET p == RowsOf(projects', r.projectId)[1]
                          X == r.idea[1]
                      IN  /\ p.userId = r.userId
                          /\ p.sourceIdeaId = r.ideaId
                          /\ p.sourceIdeaTitle = X.title
                          /\ p.sourceEngagementId = X.engagementId
                          /\ p.sourceEngagementName = X.engagementName
                   /\ Len(RowsOf(ideas', r.ideaId)) = 1
                   /\ LET X == RowsOf(ideas', r.ideaId)[1]
                      IN  /\ X.userId = r.userId
                          /\ X.convertedToProjectId = r.projectId
                          /\ X.status = "Implemented"
      ]_vars

\* C4 happens: the conversion of an idea that is linked to an engagement was
\* answered 200 and its project and the stamped idea are stored
C4_Witness ==
    /\ reply.route = "convert-to-project"
    /\ reply.status = 200
    /\ reply.body[1].sourceEngagementId = "g1"
    /\ Len(RowsOf(projects, reply.body[1].id)) = 1
    /\ \E i \in DOMAIN ideas :
          /\ ideas[i].convertedToProjectId = reply.body[1].id
          /\ ideas[i].status = "Implemented"

\* the requester has no idea with the id of r
NotFound(r) ==
    \A i \in DOMAIN ideas : ~(ideas[i].id = r.ideaId /\ ideas[i].userId = r.userId)

\* C5: a conversion request for an idea id that does not exist, or whose idea
\* belongs to another user, is answered 404 when its lookup has run, and
\* that is all it does: projects and ideas are unchanged and the request is
\* over.
C5_NotFound ==
    [][ \A r \in convReqs :
          (Runs(r) /\ r.pc = "lookup" /\ NotFound(r))
             => /\ reply'.route = "convert-to-project"
                /\ reply'.to = <<r.userId, r.ideaId>>
                /\ reply'.status = 404
                /\ projects' = projects
                /\ ideas' = ideas
                /\ convReqs' = convReqs \ {r}
      ]_vars

\* C5 happens: the conversion of an idea of u1 that u2 asked for was answered
\* 404 while the idea is stored
C5_Witness ==
    /\ reply.route = "convert-to-project"
    /\ reply.to = <<"u2", "i1">>
    /\ reply.status = 404
    /\ \E i \in DOMAIN ideas : ideas[i].id = "i1" /\ ideas[i].userId = "u1"

\* C8: when the conversion of an idea that is converted already (its
\* convertedToProjectId names a stored project made from it) is answered
\* 200, there are two distinct project rows with sourceIdeaId = the idea's
\* id, the idea's convertedToProjectId is the id of the second one, and no
\* column of the idea holds the id of the first.
C8_SecondConversion ==
    [][ \A r \in convReqs :
          (/\ Runs(r) /\ r.pc = "update"
           /\ Len(RowsOf(ideas, r.ideaId)) = 1
           /\ RowsOf(ideas, r.ideaId)[1].convertedToProjectId # NULL
           /\ RowsOf(ideas, r.ideaId)[1].convertedToProjectId # r.projectId
           /\ RowsOf(projects, RowsOf(ideas, r.ideaId)[1].convertedToProjectId) # <<>>)
          => LET first == RowsOf(ideas, r.ideaId)[1].convertedToProjectId
                 X == RowsOf(ideas', r.ideaId)[1]
             IN  /\ reply'.status = 200
                 /\ first # r.projectId
                 /\ \E i, j \in DOMAIN projects' :
                       /\ i # j
                       /\ projects'[i].id = first
                       /\ projects'[j].id = r.projectId
                       /\ projects'[i].sourceIdeaId = r.ideaId
                       /\ projects'[j].sourceIdeaId = r.ideaId
                 /\ X.convertedToProjectId = r.projectId
                 /\ \A f \in DOMAIN X : X[f] # first
      ]_vars

\* C8 happens: two projects made from idea i1 are stored, the idea names the
\* later one and the last response was the 200 of a conversion
C8_Witness ==
    /\ reply.route = "convert-to-project"
    /\ reply.status = 200
    /\ Len(ProjectsFrom(projects, "i1")) = 2
    /\ \E i \in DOMAIN ideas :
          /\ ideas[i].id = "i1"
          /\ ideas[i].convertedToProjectId = reply.body[1].id
          /\ reply.body[1].id = ProjectsFrom(projects, "i1")[2].id

(***************************************************************************)
(* SpecOverride: one conversion of a stored idea, for every request body   *)
(***************************************************************************)
\* the ideas as POST /api/ideas stored them: with a first entry, and without
\* entries and a description that is not blank, blank, or empty
OverrideIdeas ==
    { Idea("i1", "T1", "d", JArr(<<IdeaEntry("e1", "x"), IdeaEntry("e2", "y")>>),
           "New", <<NULL, NULL>>),
      Idea("i1", "T2", "d", JArr(<<>>), "Planned", <<"g1", "G1">>),
      Idea("i1", "T3", " ", JArr(<<>>), "New", <<NULL, NULL>>),
      Idea("i1", "T4", "", NULL, "New", <<NULL, NULL>>) }

\* every body: each field is absent, the empty string, or a value
AllBodies ==
    { ProjectData(name, description, status, startDate, dueDate) :
        name \in {NULL, "", "N"}, description \in {NULL, "", "D"},
        status \in {NULL, "", "In Progress"},
        startDate \in {NULL, "", "2024-02-02"},
        dueDate \in {NULL, "", "2024-03-03"} }

InitOverride ==
    /\ InitRest
    /\ \E i \in OverrideIdeas, projectData \in AllBodies :
          /\ ideas = <<IdeaRow(Me, i)>>
          /\ convReqs = {ConvReq(Me, i.id, projectData, FALSE)}
    /\ projects = <<>>
    /\ project_tasks = <<>>
    /\ research_notes = <<>>
    /\ tasks = <<>>
    /\ projReqs = {}
    /\ taskReqs = {}
    /\ ideaReqs = {}
    /\ reply = Reply("POST /api/ideas", Me, "i1", 200, <<>>)
    /\ appTasks = <<>>
    /\ appProjects = <<>>
    /\ appIdeas = <<>>
    /\ converting = <<>>
    /\ last = [op |-> "none", arg |-> NULL, calls |-> <<>>, tick |-> 0]
    /\ engagements = <<>>
    /\ notes = <<>>
    /\ engReqs = {}
    /\ noteReqs = {}
    /\ appEngagements = <<>>
    /\ viewState = [tab |-> "home", view |-> "dashboard", targetId |-> NULL]
    /\ itemsToDelete = NULL
    /\ isAddModalOpen = FALSE
    /\ confirms = {}

NextOverride ==
    \/ \E r \in convReqs :
          /\ ConvertLookup(r)
          /\ UNCHANGED <<ideaReqs, notConv>>
    \/ \E r \in convReqs :
          /\ ConvertInsert(r)
          /\ UNCHANGED <<ideaReqs, notConv>>
    \/ \E r \in convReqs :
          /\ ConvertUpdate(r)
          /\ UNCHANGED <<ideaReqs, notConv>>

SpecOverride == InitOverride /\ [][NextOverride]_vars

\* the content of the first entry of the idea as GET /api/ideas lists it; the
\* stored description when the listed idea has no entry
FirstEntryContent(row) ==
    LET entries == ListedEntries(row)
    IN  IF Len(entries[2]) > 0 THEN Member(entries[2][1], "content")[2]
        ELSE row.description

\* the defaults of name, description, status, startDate and dueDate
DefaultOf(field, X, now) ==
    CASE field = "name"        -> X.title
      [] field = "description" -> FirstEntryContent(X)
      [] field = "status"      -> "Not Started"
      [] field = "startDate"   -> Slice10(now)
      [] field = "dueDate"     -> ""

OverrideFields == {"name", "description", "status", "startDate", "dueDate"}

\* the created project, as stored and as returned, has value in field
Created(r, field, value) ==
    /\ reply'.status = 200
    /\ reply'.body[1][field] = value
    /\ Len(RowsOf(projects', r.projectId)) = 1
    /\ RowsOf(projects', r.projectId)[1][field] = value

\* C6 (as claimed): the created project has in each of name, description,
\* status, startDate and dueDate the value that the request body gives, and
\* the default when the body does not give the field; with an empty body the
\* response has the idea's title as name, status "Not Started" and no tasks.
C6_Claim ==
    [][ \A r \in convReqs :
          (Runs(r) /\ r.pc = "update")
             => /\ \A field \in OverrideFields :
                      Created(r, field,
                              IF r.projectData[field] # NULL
                              THEN r.projectData[field]
                              ELSE DefaultOf(field, RowsOf(ideas, r.ideaId)[1], r.now))
                /\ r.projectData = EmptyBody
                      => /\ reply'.body[1].name = RowsOf(ideas, r.ideaId)[1].title
                         /\ reply'.body[1].status = "Not Started"
                         /\ reply'.body[1].tasks = <<>>
      ]_vars

\* C6 (amended): as C6, where a field that the body gives as the empty string
\* counts as not given.
C6_Amended ==
    [][ \A r \in convReqs :
          (Runs(r) /\ r.pc = "update")
             => /\ \A field \in OverrideFields :
                      Created(r, field,
                              IF r.projectData[field] \notin {NULL, ""}
                              THEN r.projectData[field]
                              ELSE DefaultOf(field, RowsOf(ideas, r.ideaId)[1], r.now))
                /\ r.projectData = EmptyBody
                      => /\ reply'.body[1].name = RowsOf(ideas, r.ideaId)[1].title
                         /\ reply'.body[1].status = "Not Started"
                         /\ reply'.body[1].tasks = <<>>
      ]_vars

\* C6 happens: a conversion whose body gave a name and the empty string as
\* status was answered with the given name, the default status and the first
\* entry's content as description
C6_Witness ==
    /\ reply.route = "convert-to-project"
    /\ reply.status = 200
    /\ reply.body[1].name = "N"
    /\ reply.body[1].status = "Not Started"
    /\ reply.body[1].description = "x"
    /\ reply.body[1].startDate = "2024-05-05"
    /\ Len(RowsOf(projects, reply.body[1].id)) = 1

(***************************************************************************)
(* The client: App's idea handlers and the idea board                      *)
(***************************************************************************)
IdeaStatuses == {"New", "Planned", "In Progress", "Implemented", "Discarded"}

SaveIdeaAPI(i) == ideaReqs' = ideaReqs \cup {IdeaReq(Me, i)}

\* the requests that the idea board and its handlers wait for
InFlightIdea ==
    Cardinality(ideaReqs) + Cardinality(convReqs) + Cardinality(projReqs)

HandleAddIdea(idea) ==
    /\ InFlightIdea < MaxInFlight
    /\ appIdeas' = <<idea>> \o appIdeas
    /\ SaveIdeaAPI(idea)
    /\ last' = HandlerCall("handleAddIdea", idea, <<Call("saveIdeaAPI", idea)>>)

HandleUpdateIdea(updatedIdea) ==
    /\ InFlightIdea < MaxInFlight
    /\ appIdeas' = [i \in DOMAIN appIdeas |->
                        IF appIdeas[i].id = updatedIdea.id
                        THEN updatedIdea ELSE appIdeas[i]]
    /\ SaveIdeaAPI(updatedIdea)
    /\ last' = HandlerCall("handleUpdateIdea", updatedIdea,
                           <<Call("saveIdeaAPI", updatedIdea)>>)

\* ideas.find(i => i.id === selectedIdeaId): a sequence of at most one idea
SelectedIdea(selectedIdeaId) ==
    LET hits == SelectSeq(appIdeas, LAMBDA i : i.id = selectedIdeaId)
    IN  IF hits = <<>> THEN <<>> ELSE <<hits[1]>>

\* the status select of the selected idea
StatusSelect(selectedIdeaId, status) ==
    /\ SelectedIdea(selectedIdeaId) # <<>>
    /\ HandleUpdateIdea([SelectedIdea(selectedIdeaId)[1] EXCEPT !.status = status])

\* handleConvertToProject up to its await; the button is rendered for an idea
\* that has no convertedToProjectId and is disabled while isConverting
HandleConvertToProject(selectedIdeaId, now) ==
    /\ InFlightIdea < MaxInFlight
    /\ SelectedIdea(selectedIdeaId) # <<>>
    /\ Or(SelectedIdea(selectedIdeaId)[1].convertedToProjectId, NULL) = NULL
    /\ converting = <<>>
    /\ converting' = <<[idea |-> SelectedIdea(selectedIdeaId)[1], reply |-> <<>>]>>
    /\ convReqs' = convReqs \cup
          {ConvReq(Me, selectedIdeaId,
                   ProjectData(NULL, NULL, NULL, Slice10(now), NULL), TRUE)}
    /\ last' = HandlerCall("handleConvertToProject", selectedIdeaId,
                           <<Call("convertIdeaToProjectAPI", selectedIdeaId)>>)

\* handleConvertToProject after its await: onUpdateIdea with the idea as it
\* was when the button was clicked, then onAddProject (App's add handler of
\* projects); a response that is not ok throws and is only reported
ConvertResolved ==
    /\ converting # <<>>
    /\ converting[1].reply # <<>>
    /\ converting' = <<>>
    /\ IF converting[1].reply[1].status = 200
       THEN LET project == converting[1].reply[1].body[1]
                updatedIdea == [converting[1].idea EXCEPT
                                    !.convertedToProjectId = project.id,
                                    !.status = "Implemented"]
            IN  /\ InFlightIdea + 2 <= MaxInFlight
                /\ appIdeas' = [i \in DOMAIN appIdeas |->
                                    IF appIdeas[i].id = updatedIdea.id
                                    THEN updatedIdea ELSE appIdeas[i]]
                /\ SaveIdeaAPI(updatedIdea)
                /\ appProjects' = <<project>> \o appProjects
                /\ SaveProjectAPI(project)
                /\ last' = HandlerCall("handleConvertToProject", updatedIdea,
                                       <<Call("saveIdeaAPI", updatedIdea),
                                         Call("saveProjectAPI", project)>>)
       ELSE /\ UNCHANGED <<appIdeas, ideaReqs, appProjects, projReqs>>
            /\ last' = HandlerCall("handleConvertToProject", converting[1].idea,
                                   <<>>)

(***************************************************************************)
(* SpecIdea: the idea board with the server                                *)
(***************************************************************************)
\* the ideas that handleAdd of the idea board builds
AddedIdeas ==
    { Idea("i1", "T1", "x", JArr(<<IdeaEntry("e1", "x")>>), "New", <<NULL, NULL>>) }

InitIdea == InitTask

\* the state that the idea board and the idea routes never touch
notIdea == <<tasks, taskReqs, appTasks, engVars, noteVars, otherVars>>

NextIdea ==
    \/ \E idea \in AddedIdeas :
          /\ idea.id \notin Ids(appIdeas)
          /\ HandleAddIdea(idea)
          /\ UNCHANGED <<storeProj, ideas, convReqs, projReqs, reply,
                         appProjects, converting, notIdea>>
    \/ \E id \in IdeaIds, status \in IdeaStatuses :
          /\ StatusSelect(id, status)
          /\ UNCHANGED <<storeProj, ideas, convReqs, projReqs, reply,
                         appProjects, converting, notIdea>>
    \/ \E id \in IdeaIds, now \in Clock :
          /\ HandleConvertToProject(id, now)
          /\ UNCHANGED <<storeProj, ideas, ideaReqs, projReqs, reply,
                         appIdeas, appProjects, notIdea>>
    \/ /\ ConvertResolved
       /\ UNCHANGED <<storeProj, ideas, convReqs, reply, notIdea>>
    \/ \E r \in ideaReqs :
          /\ PostIdeas(r)
          /\ UNCHANGED <<storeProj, convReqs, projReqs, appIdeas, appProjects,
                         converting, last, notIdea>>
    \/ \E r \in convReqs :
          /\ ConvertLookup(r)
          /\ UNCHANGED <<ideaReqs, notConv>>
    \/ \E r \in convReqs :
          /\ ConvertInsert(r)
          /\ UNCHANGED <<ideaReqs, notConv>>
    \/ \E r \in convReqs :
          /\ ConvertUpdate(r)
          /\ UNCHANGED <<ideaReqs, notConv>>
    \/ \E r \in projReqs :
          /\ PostProjectsParent(r)
          /\ UNCHANGED <<tasks, taskReqs, appTask, notTask>>
    \/ \E r \in projReqs :
          /\ PostProjectsChildren(r)
          /\ UNCHANGED <<tasks, taskReqs, appTask, notTask>>

SpecIdea == InitIdea /\ [][NextIdea]_vars

\* C7 (as claimed): in every reachable state every idea whose
\* convertedToProjectId is set has status "Implemented", in the ideas table
\* and in the idea collection of the client.
C7_ConvertedIsImplemented ==
    /\ \A i \in DOMAIN ideas :
          ideas[i].convertedToProjectId # NULL => ideas[i].status = "Implemented"
    /\ \A i \in DOMAIN appIdeas :
          appIdeas[i].convertedToProjectId # NULL
             => appIdeas[i].status = "Implemented"

(***************************************************************************)
(* POST /api/engagements, GET /api/engagements, DELETE /api/engagements/:id*)
(***************************************************************************)
EngagementIds == {"e1", "e2"}

Engagement(id, timeline, files) ==
    [id |-> id, engagementNumber |-> "E-1", orgId |-> "o1",
     accountName |-> "acme", name |-> "n", status |-> "Active",
     timeline |-> timeline, files |-> files,
     aiSummary |-> NULL, lastSummaryDate |-> NULL]

EngagementRow(userId, e) ==
    [id |-> e.id, userId |-> userId, engagementNumber |-> e.engagementNumber,
     orgId |-> e.orgId, accountName |-> e.accountName, name |-> e.name,
     status |-> e.status, timeline |-> StoredArray(e.timeline),
     files |-> StoredArray(e.files), aiSummary |-> e.aiSummary,
     lastSummaryDate |-> e.lastSummaryDate]

SaveEngagementReq(userId, e) == [kind |-> "save", userId |-> userId, e |-> e]

\* h names the call of handleConfirmDelete that awaits the response
DeleteEngagementReq(userId, id, h) ==
    [kind |-> "delete", userId |-> userId, id |-> id, h |-> h]

PostEngagements(r) ==
    /\ r \in engReqs
    /\ r.kind = "save"
    /\ engagements' = InsertOrReplace(engagements, EngagementRow(r.userId, r.e))
    /\ engReqs' = engReqs \ {r}

ListedEngagement(r) ==
    [r EXCEPT !.timeline = ParsedArray(r.timeline), !.files = ParsedArray(r.files)]

GetEngagements(userId) ==
    LET rows == SelectSeq(engagements, LAMBDA r : r.userId = userId)
    IN  [i \in DOMAIN rows |-> ListedEngagement(rows[i])]

\* DELETE FROM engagements WHERE id = ? AND userId = ?
DeleteFrom(table, id, userId) ==
    SelectSeq(table, LAMBDA r : ~(r.id = id /\ r.userId = userId))

(***************************************************************************)
(* The client: the engagement views and the delete confirmation            *)
(***************************************************************************)
\* the tabs of the model: the engagement tab and one other tab
Tabs == {"home", "engagements"}

\* what App renders
DashboardRendered == viewState.tab = "engagements" /\ viewState.view = "dashboard"

DetailRendered ==
    /\ viewState.tab = "engagements"
    /\ viewState.view = "detail"
    /\ viewState.targetId # NULL
    /\ viewState.targetId \in Ids(appEngagements)

SaveEngagementAPI(e) == engReqs' = engReqs \cup {SaveEngagementReq(Me, e)}

HandleTabChange(tab) ==
    /\ viewState' = [viewState EXCEPT !.tab = tab, !.view = "dashboard"]
    /\ UNCHANGED <<engagements, engReqs, appEngagements, itemsToDelete,
                   isAddModalOpen, confirms>>

\* Dashboard: onNavigate of a listed engagement
HandleNavigate(id) ==
    /\ DashboardRendered
    /\ id \in Ids(appEngagements)
    /\ viewState' = [viewState EXCEPT !.view = "detail", !.targetId = id]
    /\ UNCHANGED <<engagements, engReqs, appEngagements, itemsToDelete,
                   isAddModalOpen, confirms>>

\* EngagementDetail: onBack
HandleBack ==
    /\ DetailRendered
    /\ viewState' = [viewState EXCEPT !.view = "dashboard", !.targetId = NULL]
    /\ UNCHANGED <<engagements, engReqs, appEngagements, itemsToDelete,
                   isAddModalOpen, confirms>>

\* Dashboard: onAdd
OpenAddModal ==
    /\ DashboardRendered
    /\ ~isAddModalOpen
    /\ isAddModalOpen' = TRUE
    /\ UNCHANGED <<engagements, engReqs, appEngagements, viewState,
                   itemsToDelete, confirms>>

\* AddEngagementModal: onSave
HandleAddEngagement(newEngagement) ==
    /\ isAddModalOpen
    /\ Cardinality(engReqs) < MaxInFlight
    /\ appEngagements' = <<newEngagement>> \o appEngagements
    /\ isAddModalOpen' = FALSE
    /\ viewState' = [viewState EXCEPT !.view = "detail",
                                      !.targetId = newEngagement.id]
    /\ SaveEngagementAPI(newEngagement)
    /\ UNCHANGED <<engagements, itemsToDelete, confirms>>

\* Dashboard: onDelete with the ids that are selected
HandleDeleteRequest(ids) ==
    /\ DashboardRendered
    /\ Range(ids) \subseteq Ids(appEngagements)
    /\ itemsToDelete' = ids
    /\ UNCHANGED <<engagements, engReqs, appEngagements, viewState,
                   isAddModalOpen, confirms>>

\* DeleteConfirmationModal: onCancel
CancelDelete ==
    /\ itemsToDelete # NULL
    /\ itemsToDelete' = NULL
    /\ UNCHANGED <<engagements, engReqs, appEngagements, viewState,
                   isAddModalOpen, confirms>>

\* a call of handleConfirmDelete at its await: the itemsToDelete and the
\* viewState of the render whose handler was called, and the ids whose
\* deleteEngagementAPI promise is pending
Confirm(items, view, waiting) ==
    [items |-> items, viewState |-> view, waiting |-> waiting]

\* DeleteConfirmationModal: onConfirm, up to the await of Promise.all
HandleConfirmDelete ==
    /\ itemsToDelete # NULL
    /\ Cardinality(engReqs) + Len(itemsToDelete) <= MaxInFlight
    /\ appEngagements' = SelectSeq(appEngagements,
                                   LAMBDA e : e.id \notin Range(itemsToDelete))
    /\ confirms' = confirms \cup
          {Confirm(itemsToDelete, viewState, Range(itemsToDelete))}
    /\ engReqs' = engReqs \cup
          { DeleteEngagementReq(Me, id, <<itemsToDelete, viewState>>) :
                id \in Range(itemsToDelete) }
    /\ UNCHANGED <<engagements, viewState, itemsToDelete, isAddModalOpen>>

\* the call of handleConfirmDelete that awaits the response to r
Awaiting(r) ==
    {c \in confirms : <<c.items, c.viewState>> = r.h /\ r.id \in c.waiting}

\* handleConfirmDelete after the await
AfterDeletes(c) ==
    /\ itemsToDelete' = NULL
    /\ viewState' =
          IF /\ c.viewState.view = "detail"
             /\ c.viewState.targetId # NULL
             /\ c.viewState.targetId \in Range(c.items)
          THEN [viewState EXCEPT !.view = "dashboard"]
          ELSE viewState

\* the server deletes the row and answers; the promise of the request is
\* fulfilled, and with the last one Promise.all and the handler goes on
DeleteEngagements(r) ==
    /\ r \in engReqs
    /\ r.kind = "delete"
    /\ engagements' = DeleteFrom(engagements, r.id, r.userId)
    /\ engReqs' = engReqs \ {r}
    /\ IF Awaiting(r) = {}
       THEN UNCHANGED <<viewState, itemsToDelete, confirms>>
       ELSE LET c == CHOOSE c \in Awaiting(r) : TRUE
            IN  IF c.waiting = {r.id}
                THEN /\ confirms' = confirms \ {c}
                     /\ AfterDeletes(c)
                ELSE /\ confirms' = (confirms \ {c}) \cup
                            {Confirm(c.items, c.viewState, c.waiting \ {r.id})}
                     /\ UNCHANGED <<viewState, itemsToDelete>>
    /\ UNCHANGED <<appEngagements, isAddModalOpen>>

\* the request fails (fetch rejects, or the response is not ok and
\* handleResponse throws): Promise.all rejects and the handler, which has no
\* catch, stops at its await
DeleteEngagementFails(r) ==
    /\ r \in engReqs
    /\ r.kind = "delete"
    /\ engReqs' = engReqs \ {r}
    /\ confirms' = confirms \ Awaiting(r)
    /\ UNCHANGED <<engagements, appEngagements, viewState, itemsToDelete,
                   isAddModalOpen>>

(***************************************************************************)
(* SpecEng: the engagement views with the server                           *)
(***************************************************************************)
AddedEngagements == { Engagement(id, JArr(<<>>), JArr(<<>>)) : id \in EngagementIds }

\* Array.from(selectedIds) of the dashboard: one or two selected ids
SelectedIds ==
    { <<id>> : id \in EngagementIds } \cup
    { p \in EngagementIds \X EngagementIds : p[1] # p[2] }

InitEng == InitTask

\* the state that the engagement views and routes never touch
notEng == <<storeProj, tasks, projReqs, taskReqs, appTasks, appProjects, last,
            ideaVars, noteVars, otherVars>>

NextEng ==
    \/ \E tab \in Tabs : HandleTabChange(tab) /\ UNCHANGED notEng
    \/ \E id \in EngagementIds : HandleNavigate(id) /\ UNCHANGED notEng
    \/ HandleBack /\ UNCHANGED notEng
    \/ OpenAddModal /\ UNCHANGED notEng
    \/ \E e \in AddedEngagements :
          /\ e.id \notin Ids(appEngagements)
          /\ \A r \in engReqs : r.kind = "delete" => r.id # e.id
          /\ HandleAddEngagement(e)
          /\ UNCHANGED notEng
    \/ \E ids \in SelectedIds : HandleDeleteRequest(ids) /\ UNCHANGED notEng
    \/ CancelDelete /\ UNCHANGED notEng
    \/ HandleConfirmDelete /\ UNCHANGED notEng
    \/ \E r \in engReqs :
          /\ PostEngagements(r)
          /\ UNCHANGED <<appEngagements, viewState, itemsToDelete,
                         isAddModalOpen, confirms, notEng>>
    \/ \E r \in engReqs : DeleteEngagements(r) /\ UNCHANGED notEng
    \/ \E r \in engReqs : DeleteEngagementFails(r) /\ UNCHANGED notEng

SpecEng == InitEng /\ [][NextEng]_vars

\* the call c of handleConfirmDelete returns or throws in this step
Ends(c) ==
    /\ c \in confirms
    /\ \A d \in confirms' : <<d.items, d.viewState>> # <<c.items, c.viewState>>

\* c was confirmed with the engagement of the open detail view in its set
OpenInSet(c) ==
    /\ c.viewState.view = "detail"
    /\ c.viewState.targetId # NULL
    /\ c.viewState.targetId \in Range(c.items)

\* C9 (as claimed): a call of handleConfirmDelete that was made with
\* viewState.view = 'detail' and viewState.targetId among the ids to delete
\* always ends with viewState.view = 'dashboard' and itemsToDelete = null.
C9_BackToDashboard ==
    [][ \A c \in confirms :
          (Ends(c) /\ OpenInSet(c))
             => /\ viewState'.view = "dashboard"
                /\ itemsToDelete' = NULL
      ]_vars

(***************************************************************************)
(* GET /api/tasks, POST /api/notes, GET /api/notes                         *)
(***************************************************************************)
ListedTask(r) ==
    [r EXCEPT !.isCompleted = Truthy(r.isCompleted),
              !.isPriority = Truthy(r.isPriority),
              !.subtasks = ParsedArray(r.subtasks)]

GetTasks(userId) ==
    LET rows == SelectSeq(tasks, LAMBDA r : r.userId = userId)
    IN  [i \in DOMAIN rows |-> ListedTask(rows[i])]

Note(id, tags) ==
    [id |-> id, title |-> "t", content |-> "c", tags |-> tags,
     createdAt |-> "c0", updatedAt |-> "c1"]

NoteRow(userId, n) ==
    [id |-> n.id, userId |-> userId, title |-> n.title, content |-> n.content,
     tags |-> StoredArray(n.tags), createdAt |-> n.createdAt,
     updatedAt |-> n.updatedAt]

NoteReq(userId, n) == [userId |-> userId, n |-> n]

PostNotes(r) ==
    /\ r \in noteReqs
    /\ notes' = InsertOrReplace(notes, NoteRow(r.userId, r.n))
    /\ noteReqs' = noteReqs \ {r}

ListedNote(r) == [r EXCEPT !.tags = ParsedArray(r.tags)]

GetNotes(userId) ==
    LET rows == SelectSeq(notes, LAMBDA r : r.userId = userId)
    IN  [i \in DOMAIN rows |-> ListedNote(rows[i])]

(***************************************************************************)
(* SpecBlob: engagements, tasks and notes saved straight at the REST       *)
(* boundary, with the nested arrays a client may submit                    *)
(***************************************************************************)
TimelineEntry(id, content) ==
    JObj(<< <<"id", JStr(id)>>, <<"date", JStr("2024-03-03")>>,
            <<"content", JStr(content)>>, <<"type", JStr("update")>> >>)

EngagementFile(id, size) ==
    JObj(<< <<"id", JStr(id)>>, <<"name", JStr("a.txt")>>,
            <<"type", JStr("text/plain")>>, <<"size", JNum(size)>>,
            <<"data", JStr("data:")>>, <<"uploadDate", JStr("2024-03-04")>> >>)

Subtask(id, content, isCompleted) ==
    JObj(<< <<"id", JStr(id)>>, <<"content", JStr(content)>>,
            <<"isCompleted", JBool(isCompleted)>> >>)

\* <<timeline, files>>
TimelinesAndFiles ==
    { <<JArr(<<>>), JArr(<<>>)>>,
      <<JArr(<<TimelineEntry("l1", "x"), TimelineEntry("l2", "")>>), JArr(<<>>)>>,
      <<JArr(<<TimelineEntry("l2", ""), TimelineEntry("l1", "x")>>),
        JArr(<<EngagementFile("f1", 0), EngagementFile("f2", 12)>>)>> }

SubtaskArrays ==
    { JArr(<<>>),
      JArr(<<Subtask("b1", "x", FALSE)>>),
      JArr(<<Subtask("b2", "", TRUE), Subtask("b1", "x", FALSE)>>) }

TagArrays ==
    { JArr(<<>>), JArr(<<JStr("a"), JStr("b")>>),
      JArr(<<JStr("b"), JStr("a"), JStr("a")>>) }

\* what each user submits: every array of the client's user, one of another
SubmittedEngagements(userId) ==
    IF userId = Me
    THEN { Engagement("e1", a[1], a[2]) : a \in TimelinesAndFiles }
    ELSE { Engagement("e1", JArr(<<TimelineEntry("l9", "y")>>), JArr(<<>>)) }

SubmittedTasks(userId) ==
    IF userId = Me
    THEN { [Task("s1", "a", FALSE, NULL, NULL) EXCEPT !.subtasks = s] :
             s \in SubtaskArrays }
    ELSE { [Task("s1", "z", TRUE, NULL, NULL) EXCEPT
               !.subtasks = JArr(<<Subtask("b9", "y", TRUE)>>)] }

SubmittedNotes(userId) ==
    IF userId = Me THEN { Note("n1", g) : g \in TagArrays }
    ELSE { Note("n1", JArr(<<JStr("z")>>)) }

InFlightBlob == Cardinality(engReqs) + Cardinality(taskReqs) + Cardinality(noteReqs)

SendEngagement(userId, e) ==
    /\ InFlightBlob < MaxInFlight
    /\ engReqs' = engReqs \cup {SaveEngagementReq(userId, e)}
    /\ UNCHANGED <<engagements, tasks, taskReqs, notes, noteReqs>>

SendTask(userId, t) ==
    /\ InFlightBlob < MaxInFlight
    /\ taskReqs' = taskReqs \cup {TaskReq(userId, t)}
    /\ UNCHANGED <<engagements, engReqs, tasks, notes, noteReqs>>

SendNote(userId, n) ==
    /\ InFlightBlob < MaxInFlight
    /\ noteReqs' = noteReqs \cup {NoteReq(userId, n)}
    /\ UNCHANGED <<engagements, engReqs, tasks, taskReqs, notes>>

InitBlob == InitTask

\* the state that the three routes never touch
notBlob == <<storeProj, projReqs, appTask, ideaVars, appEngagements, viewState,
             itemsToDelete, isAddModalOpen, confirms, otherVars>>

NextBlob ==
    \/ \E u \in Users : \E e \in SubmittedEngagements(u) :
          SendEngagement(u, e) /\ UNCHANGED notBlob
    \/ \E u \in Users : \E t \in SubmittedTasks(u) :
          SendTask(u, t) /\ UNCHANGED notBlob
    \/ \E u \in Users : \E n \in SubmittedNotes(u) :
          SendNote(u, n) /\ UNCHANGED notBlob
    \/ \E r \in engReqs :
          /\ PostEngagements(r)
          /\ UNCHANGED <<tasks, taskReqs, notes, noteReqs, notBlob>>
    \/ \E r \in taskReqs :
          /\ PostTasks(r)
          /\ UNCHANGED <<engagements, engReqs, notes, noteReqs, notBlob>>
    \/ \E r \in noteReqs :
          /\ PostNotes(r)
          /\ UNCHANGED <<engagements, engReqs, tasks, taskReqs, notBlob>>

SpecBlob == InitBlob /\ [][NextBlob]_vars

\* the saver's next list holds the entity once, with the arrays of r
EngagementReadsBack(r) ==
    LET hits == SelectSeq(GetEngagements(r.userId), LAMBDA e : e.id = r.e.id)
    IN  /\ Len(hits) = 1
        /\ hits[1].timeline = r.e.timeline
        /\ hits[1].files = r.e.files

TaskReadsBack(r) ==
    LET hits == SelectSeq(GetTasks(r.userId), LAMBDA t : t.id = r.t.id)
    IN  /\ Len(hits) = 1
        /\ hits[1].subtasks = r.t.subtasks

NoteReadsBack(r) ==
    LET hits == SelectSeq(GetNotes(r.userId), LAMBDA n : n.id = r.n.id)
    IN  /\ Len(hits) = 1
        /\ hits[1].tags = r.n.tags

\* C10: when the upsert of an engagement, a task or a note has run, the next
\* list request of the saver returns the entity with nested arrays equal to
\* the submitted ones (timeline and files, subtasks, tags): the same
\* elements in the same order, the empty array included.
C10_NestedArraysRoundTrip ==
    [][ /\ \A r \in engReqs :
              (r.kind = "save" /\ r \notin engReqs') => EngagementReadsBack(r)'
        /\ \A r \in taskReqs : r \notin taskReqs' => TaskReadsBack(r)'
        /\ \A r \in noteReqs : r \notin noteReqs' => NoteReadsBack(r)'
      ]_vars

\* the three lists of the client's user hold what was saved: an engagement
\* with two timeline entries and two files, a task with no subtasks and a
\* note with three tags
C10_Witness ==
    /\ engReqs = {} /\ taskReqs = {} /\ noteReqs = {}
    /\ \E e \in Range(GetEngagements(Me)) :
          /\ e.timeline = JArr(<<TimelineEntry("l2", ""), TimelineEntry("l1", "x")>>)
          /\ e.files = JArr(<<EngagementFile("f1", 0), EngagementFile("f2", 12)>>)
    /\ \E t \in Range(GetTasks(Me)) : t.subtasks = JArr(<<>>)
    /\ \E n \in Range(GetNotes(Me)) :
          n.tags = JArr(<<JStr("b"), JStr("a"), JStr("a")>>)

(***************************************************************************)
(* SpecEntries: ideas of the idea board saved and listed                   *)
(***************************************************************************)
\* deleteEntry: the selected idea without the entry, sent to onUpdateIdea
DeleteEntry(selectedIdea, entryId) ==
    [selectedIdea EXCEPT
        !.entries = JArr(SelectSeq(IF @ = NULL THEN <<>> ELSE @[2],
                                   LAMBDA e : Member(e, "id")[2] # entryId)),
        !.updatedAt = "c1"]

EntryIds == {"e1", "e2"}

\* the ideas that the board may hold as selectedIdea: as handleAdd made them
\* (the description is the content of the first entry) and with a second
\* entry before or after it
BoardIdeas ==
    { Idea(id, "T1", "x", entries, "New", <<NULL, NULL>>) :
        id \in IdeaIds,
        entries \in { JArr(<<IdeaEntry("e1", "x")>>),
                      JArr(<<IdeaEntry("e1", "x"), IdeaEntry("e2", "")>>),
                      JArr(<<IdeaEntry("e2", ""), IdeaEntry("e1", "x")>>) } }
    \cup
    { Idea(id, "T1", " ", JArr(<<IdeaEntry("e1", " ")>>), "New", <<NULL, NULL>>) :
        id \in IdeaIds }

InitEntries == InitTask

\* the state that the saves of the board's ideas never touch
notEntries == <<storeProj, converting, notConv>>

NextEntries ==
    \/ \E i \in BoardIdeas : SendIdea(Me, i) /\ UNCHANGED notEntries
    \/ \E i \in BoardIdeas, entryId \in EntryIds :
          SendIdea(Me, DeleteEntry(i, entryId)) /\ UNCHANGED notEntries
    \/ \E r \in ideaReqs :
          PostIdeas(r) /\ UNCHANGED <<convReqs, notEntries>>

SpecEntries == InitEntries /\ [][NextEntries]_vars

\* the saver's next list holds the idea once, with the entries of r
IdeaReadsBack(r) ==
    LET hits == SelectSeq(GetIdeas(r.userId), LAMBDA i : i.id = r.i.id)
    IN  /\ Len(hits) = 1
        /\ hits[1].entries = r.i.entries

\* C11 (as claimed): when POST /api/ideas has stored an idea with entries E,
\* the next GET /api/ideas of the saver returns the idea with entries equal
\* to E, also when E is empty and the description is not blank.
C11_Claim ==
    [][ \A r \in ideaReqs : r \notin ideaReqs' => IdeaReadsBack(r)' ]_vars

(***************************************************************************)
(* /api/highlights, /api/calendar, /api/links                              *)
(***************************************************************************)
Highlight(id, content, needsFollowUp) ==
    [id |-> id, content |-> content, impact |-> "i", date |-> "2024-01-01",
     needsFollowUp |-> needsFollowUp, followUpContext |-> NULL,
     createdAt |-> "c0"]

CalendarEvent(id, title, momSent) ==
    [id |-> id, title |-> title, description |-> NULL, date |-> "2024-01-01",
     startTime |-> "09:00", endTime |-> "10:00", type |-> "meeting",
     meetingNotes |-> NULL, momSent |-> momSent]

UsefulLink(id, title) ==
    [id |-> id, title |-> title, url |-> "http://a", category |-> "c",
     description |-> NULL, createdAt |-> "c0"]

HighlightRow(userId, h) ==
    [id |-> h.id, userId |-> userId, content |-> h.content, impact |-> h.impact,
     date |-> h.date, needsFollowUp |-> Flag(h.needsFollowUp),
     followUpContext |-> h.followUpContext, createdAt |-> h.createdAt]

CalendarEventRow(userId, e) ==
    [id |-> e.id, userId |-> userId, title |-> e.title,
     description |-> e.description, date |-> e.date, startTime |-> e.startTime,
     endTime |-> e.endTime, type |-> e.type, meetingNotes |-> e.meetingNotes,
     momSent |-> Flag(e.momSent)]

UsefulLinkRow(userId, l) ==
    [id |-> l.id, userId |-> userId, title |-> l.title, url |-> l.url,
     category |-> l.category, description |-> l.description,
     createdAt |-> l.createdAt]

RestReq(route, userId, body) == [route |-> route, userId |-> userId, body |-> body]

PostHighlights(r) ==
    /\ r \in restReqs
    /\ r.route = "highlights"
    /\ highlights' = InsertOrReplace(highlights, HighlightRow(r.userId, r.body))
    /\ restReqs' = restReqs \ {r}
    /\ UNCHANGED <<calendar_events, useful_links>>

PostCalendar(r) ==
    /\ r \in restReqs
    /\ r.route = "calendar"
    /\ calendar_events' =
          InsertOrReplace(calendar_events, CalendarEventRow(r.userId, r.body))
    /\ restReqs' = restReqs \ {r}
    /\ UNCHANGED <<highlights, useful_links>>

PostLinks(r) ==
    /\ r \in restReqs
    /\ r.route = "links"
    /\ useful_links' = InsertOrReplace(useful_links, UsefulLinkRow(r.userId, r.body))
    /\ restReqs' = restReqs \ {r}
    /\ UNCHANGED <<highlights, calendar_events>>

ListedHighlight(r) == [r EXCEPT !.needsFollowUp = Truthy(r.needsFollowUp)]

GetHighlights(userId) ==
    LET rows == SelectSeq(highlights, LAMBDA r : r.userId = userId)
    IN  [i \in DOMAIN rows |-> ListedHighlight(rows[i])]

ListedCalendarEvent(r) == [r EXCEPT !.momSent = Truthy(r.momSent)]

GetCalendar(userId) ==
    LET rows == SelectSeq(calendar_events, LAMBDA r : r.userId = userId)
    IN  [i \in DOMAIN rows |-> ListedCalendarEvent(rows[i])]

GetLinks(userId) == SelectSeq(useful_links, LAMBDA r : r.userId = userId)

(***************************************************************************)
(* SpecFlags: the entities with flag columns, saved and listed             *)
(***************************************************************************)
\* what a flag column may hold in a database file that is opened
StoredFlags == {0, 1, NullInt}

FlaggedTasks ==
    { [Task(id, "a", f[1], NULL, NULL) EXCEPT !.isPriority = f[2]] :
        id \in {"s1"}, f \in {<<TRUE, FALSE>>, <<FALSE, TRUE>>} }

FlaggedProjects ==
    { InternalProject("p1", "n", pts, <<>>) :
        pts \in { <<PT("t1", "a", TRUE)>>,
                  <<PT("t1", "a", FALSE), PT("t2", "b", TRUE)>> } }

FlaggedHighlights == { Highlight("h1", "a", f) : f \in BOOLEAN }

FlaggedEvents == { CalendarEvent("v1", "a", f) : f \in BOOLEAN }

InFlightFlags ==
    Cardinality(projReqs) + Cardinality(taskReqs) + Cardinality(restReqs)

SendRest(route, userId, body) ==
    /\ restReqs' = restReqs \cup {RestReq(route, userId, body)}
    /\ UNCHANGED <<highlights, calendar_events, useful_links>>

\* a database file with one row in each table, written before the server
\* started, whose flag columns hold f
InitFlags ==
    \E f \in StoredFlags :
        /\ Idle
        /\ RestIdle
        /\ tasks = << [TaskRow(Me, Task("s0", "o", FALSE, NULL, NULL)) EXCEPT
                          !.isCompleted = f, !.isPriority = f] >>
        /\ projects = << ProjectRow(Me, InternalProject("p0", "o", <<>>, <<>>)) >>
        /\ project_tasks =
              << [id |-> "t0", projectId |-> "p0", content |-> "o",
                  isCompleted |-> f] >>
        /\ highlights =
              << [HighlightRow(Me, Highlight("h0", "o", FALSE)) EXCEPT
                     !.needsFollowUp = f] >>
        /\ calendar_events =
              << [CalendarEventRow(Me, CalendarEvent("v0", "o", FALSE)) EXCEPT
                     !.momSent = f] >>
        /\ research_notes = <<>>
        /\ ideas = <<>>
        /\ engagements = <<>>
        /\ notes = <<>>
        /\ useful_links = <<>>
        /\ users = <<>>
        /\ settings = <<>>

\* the state that the routes with flags never touch
notFlags == <<ideaVars, engVars, noteVars, userVars, migration, appOther,
              appTask, settings, clock>>

NextFlags ==
    \/ \E t \in FlaggedTasks :
          /\ InFlightFlags < MaxInFlight
          /\ taskReqs' = taskReqs \cup {TaskReq(Me, t)}
          /\ UNCHANGED <<tasks, storeProj, projReqs, restVars, notFlags>>
    \/ \E p \in FlaggedProjects :
          /\ InFlightFlags < MaxInFlight
          /\ SendProject(Me, p)
          /\ UNCHANGED <<tasks, taskReqs, restVars, notFlags>>
    \/ \E h \in FlaggedHighlights :
          /\ InFlightFlags < MaxInFlight
          /\ SendRest("highlights", Me, h)
          /\ UNCHANGED <<tasks, taskReqs, storeProj, projReqs, notFlags>>
    \/ \E e \in FlaggedEvents :
          /\ InFlightFlags < MaxInFlight
          /\ SendRest("calendar", Me, e)
          /\ UNCHANGED <<tasks, taskReqs, storeProj, projReqs, notFlags>>
    \/ \E r \in taskReqs :
          PostTasks(r) /\ UNCHANGED <<storeProj, projReqs, restVars, notFlags>>
    \/ \E r \in projReqs :
          /\ PostProjectsParent(r)
          /\ UNCHANGED <<tasks, taskReqs, restVars, notFlags>>
    \/ \E r \in projReqs :
          /\ PostProjectsChildren(r)
          /\ UNCHANGED <<tasks, taskReqs, restVars, notFlags>>
    \/ \E r \in restReqs :
          /\ PostHighlights(r)
          /\ UNCHANGED <<tasks, taskReqs, storeProj, projReqs, notFlags>>
    \/ \E r \in restReqs :
          /\ PostCalendar(r)
          /\ UNCHANGED <<tasks, taskReqs, storeProj, projReqs, notFlags>>

SpecFlags == InitFlags /\ [][NextFlags]_vars

\* the rows of a table that belong to a user, in the order of the list
RowsFor(table, userId) == SelectSeq(table, LAMBDA r : r.userId = userId)

\* every flag of every list response is a boolean: TRUE when the column
\* holds 1, FALSE when it holds 0 or NULL
FlagsAreBooleans ==
    \A u \in Users :
        /\ \A listed \in {GetTasks(u)}, rows \in {RowsFor(tasks, u)} :
              \A i \in DOMAIN listed :
                 /\ listed[i].isCompleted \in BOOLEAN
                 /\ listed[i].isPriority \in BOOLEAN
                 /\ listed[i].isCompleted = (rows[i].isCompleted = 1)
                 /\ listed[i].isPriority = (rows[i].isPriority = 1)
        /\ \A p \in Range(GetProjects(u)) :
              \A rows \in {SelectSeq(project_tasks, LAMBDA t : t.projectId = p.id)} :
                 \A j \in DOMAIN p.tasks :
                    /\ p.tasks[j].isCompleted \in BOOLEAN
                    /\ p.tasks[j].isCompleted = (rows[j].isCompleted = 1)
        /\ \A listed \in {GetHighlights(u)}, rows \in {RowsFor(highlights, u)} :
              \A i \in DOMAIN listed :
                 /\ listed[i].needsFollowUp \in BOOLEAN
                 /\ listed[i].needsFollowUp = (rows[i].needsFollowUp = 1)
        /\ \A listed \in {GetCalendar(u)}, rows \in {RowsFor(calendar_events, u)} :
              \A i \in DOMAIN listed :
                 /\ listed[i].momSent \in BOOLEAN
                 /\ listed[i].momSent = (rows[i].momSent = 1)

\* the element of a list that has the id
Listed(list, id) == SelectSeq(list, LAMBDA x : x.id = id)[1]

\* the save of r has run: the saver's list shows the flags that r submitted
FlagsOfLastSave ==
    /\ \A r \in taskReqs : r \notin taskReqs' =>
          \A t \in {Listed(GetTasks(r.userId), r.t.id)'} :
             /\ t.isCompleted = r.t.isCompleted
             /\ t.isPriority = r.t.isPriority
    /\ \A r \in projReqs : (r.pc = "children" /\ r \notin projReqs') =>
          \A lp \in Range(GetProjects(r.userId))' : lp.id = r.p.id =>
             /\ Len(lp.tasks) = Len(r.p.tasks)
             /\ \A j \in DOMAIN lp.tasks :
                   /\ lp.tasks[j].id = r.p.tasks[j].id
                   /\ lp.tasks[j].isCompleted = r.p.tasks[j].isCompleted
    /\ \A r \in restReqs : (r.route = "highlights" /\ r \notin restReqs') =>
          Listed(GetHighlights(r.userId), r.body.id)'.needsFollowUp
             = r.body.needsFollowUp
    /\ \A r \in restReqs : (r.route = "calendar" /\ r \notin restReqs') =>
          Listed(GetCalendar(r.userId), r.body.id)'.momSent = r.body.momSent

\* C12: in every list response each flag (task isCompleted and isPriority,
\* project task isCompleted, highlight needsFollowUp, calendar event momSent)
\* is a boolean, FALSE for a stored 0 or NULL and TRUE for a stored 1, and
\* after a save it is the truth value that the save submitted.
C12_Flags ==
    [][ FlagsAreBooleans /\ FlagsAreBooleans' /\ FlagsOfLastSave ]_vars

\* each list holds a row written with NULL flags next to a saved one whose
\* flag is TRUE
C12_Witness ==
    /\ tasks[1].isCompleted = NullInt
    /\ \E t \in Range(GetTasks(Me)) : t.id = "s1" /\ t.isCompleted /\ ~t.isPriority
    /\ \E p \in Range(GetProjects(Me)) :
          \E t \in Range(p.tasks) : t.id = "t2" /\ t.isCompleted
    /\ \E h \in Range(GetHighlights(Me)) : h.id = "h1" /\ h.needsFollowUp
    /\ \E e \in Range(GetCalendar(Me)) : e.id = "v1" /\ e.momSent

(***************************************************************************)
(* SpecUpsert: the seven whole-object upserts, each save sent again at will*)
(***************************************************************************)
UpsertEngagements == { Engagement("e1", JArr(<<TimelineEntry("l1", "x")>>), JArr(<<>>)) }

UpsertTasks ==
    { [Task("s1", c, FALSE, NULL, NULL) EXCEPT
          !.subtasks = JArr(<<Subtask("b1", "x", FALSE)>>)] : c \in {"a", "b"} }

UpsertHighlights == { Highlight("h1", "a", TRUE) }

\* an idea as handleAdd makes it, and the same after deleteEntry
UpsertIdeas ==
    { Idea("i1", "T1", "x", JArr(<<IdeaEntry("e1", "x")>>), "New", <<NULL, NULL>>),
      DeleteEntry(Idea("i1", "T1", "x", JArr(<<IdeaEntry("e1", "x")>>), "New",
                       <<NULL, NULL>>), "e1") }

UpsertEvents == { CalendarEvent("v1", "a", FALSE) }

UpsertLinks == { UsefulLink(id, "a") : id \in {"k1", "k2"} }

UpsertNotes == { Note("n1", JArr(<<JStr("a")>>)) }

InFlightUpsert ==
    Cardinality(engReqs) + Cardinality(taskReqs) + Cardinality(ideaReqs)
       + Cardinality(noteReqs) + Cardinality(restReqs)

\* the state that the seven routes never touch
notUpsert == <<storeProj, projReqs, appTask, convReqs, appIdeas, converting,
               appEngagements, viewState, itemsToDelete, isAddModalOpen,
               confirms, userVars, migration, appOther, settings, clock>>

upsertStore == <<engagements, tasks, ideas, notes, highlights, calendar_events,
                 useful_links>>

InitUpsert == InitTask

NextUpsert ==
    \/ \E e \in UpsertEngagements :
          /\ InFlightUpsert < MaxConverting
          /\ engReqs' = engReqs \cup {SaveEngagementReq(Me, e)}
          /\ UNCHANGED <<upsertStore, taskReqs, ideaReqs, noteReqs, restReqs,
                         reply, notUpsert>>
    \/ \E t \in UpsertTasks :
          /\ InFlightUpsert < MaxConverting
          /\ taskReqs' = taskReqs \cup {TaskReq(Me, t)}
          /\ UNCHANGED <<upsertStore, engReqs, ideaReqs, noteReqs, restReqs,
                         reply, notUpsert>>
    \/ \E i \in UpsertIdeas :
          /\ InFlightUpsert < MaxConverting
          /\ ideaReqs' = ideaReqs \cup {IdeaReq(Me, i)}
          /\ UNCHANGED <<upsertStore, engReqs, taskReqs, noteReqs, restReqs,
                         reply, notUpsert>>
    \/ \E n \in UpsertNotes :
          /\ InFlightUpsert < MaxConverting
          /\ noteReqs' = noteReqs \cup {NoteReq(Me, n)}
          /\ UNCHANGED <<upsertStore, engReqs, taskReqs, ideaReqs, restReqs,
                         reply, notUpsert>>
    \/ \E b \in (UpsertHighlights \X {"highlights"}) \cup
                (UpsertEvents \X {"calendar"}) \cup (UpsertLinks \X {"links"}) :
          /\ InFlightUpsert < MaxConverting
          /\ restReqs' = restReqs \cup {RestReq(b[2], Me, b[1])}
          /\ UNCHANGED <<upsertStore, engReqs, taskReqs, ideaReqs, noteReqs,
                         reply, notUpsert>>
    \/ \E r \in engReqs :
          /\ PostEngagements(r)
          /\ UNCHANGED <<tasks, ideas, notes, highlights, calendar_events,
                         useful_links, taskReqs, ideaReqs, noteReqs, restReqs,
                         reply, notUpsert>>
    \/ \E r \in taskReqs :
          /\ PostTasks(r)
          /\ UNCHANGED <<engagements, ideas, notes, highlights, calendar_events,
                         useful_links, engReqs, ideaReqs, noteReqs, restReqs,
                         reply, notUpsert>>
    \/ \E r \in ideaReqs :
          /\ PostIdeas(r)
          /\ UNCHANGED <<engagements, tasks, notes, highlights, calendar_events,
                         useful_links, engReqs, taskReqs, noteReqs, restReqs,
                         notUpsert>>
    \/ \E r \in noteReqs :
          /\ PostNotes(r)
          /\ UNCHANGED <<engagements, tasks, ideas, highlights, calendar_events,
                         useful_links, engReqs, taskReqs, ideaReqs, restReqs,
                         reply, notUpsert>>
    \/ \E r \in restReqs :
          /\ PostHighlights(r)
          /\ UNCHANGED <<engagements, tasks, ideas, notes, engReqs, taskReqs,
                         ideaReqs, noteReqs, reply, notUpsert>>
    \/ \E r \in restReqs :
          /\ PostCalendar(r)
          /\ UNCHANGED <<engagements, tasks, ideas, notes, engReqs, taskReqs,
                         ideaReqs, noteReqs, reply, notUpsert>>
    \/ \E r \in restReqs :
          /\ PostLinks(r)
          /\ UNCHANGED <<engagements, tasks, ideas, notes, engReqs, taskReqs,
                         ideaReqs, noteReqs, reply, notUpsert>>

SpecUpsert == InitUpsert /\ [][NextUpsert]_vars

\* the fields that a Task is saved with when it names no engagement and no
\* project
TaskFields ==
    {"id", "content", "isCompleted", "type", "date", "createdAt", "isPriority",
     "subtasks", "engagementId"}

\* the list holds exactly one element with the id of body, and it has the
\* values of body in the fields
OneEqual(list, body, fields) ==
    \A hits \in {SelectSeq(list, LAMBDA x : x.id = body.id)} :
       /\ Len(hits) = 1
       /\ \A f \in fields : hits[1][f] = body[f]

\* the table held the row already: the save is a replay
Replays(table, row) == \E i \in DOMAIN table : table[i] = row

\* C13 (as claimed): when an upsert of user u has run, u's list holds
\* exactly one element with the id and it equals the saved object; when the
\* table held the saved row already, the table and u's list are unchanged.
C13_Claim ==
    [][ /\ \A r \in engReqs : (r.kind = "save" /\ r \notin engReqs') =>
              /\ OneEqual(GetEngagements(r.userId)', r.e, DOMAIN r.e)
              /\ Replays(engagements, EngagementRow(r.userId, r.e)) =>
                    GetEngagements(r.userId)' = GetEngagements(r.userId)
        /\ \A r \in taskReqs : r \notin taskReqs' =>
              /\ OneEqual(GetTasks(r.userId)', r.t, TaskFields)
              /\ Replays(tasks, TaskRow(r.userId, r.t)) =>
                    GetTasks(r.userId)' = GetTasks(r.userId)
        /\ \A r \in ideaReqs : r \notin ideaReqs' =>
              /\ OneEqual(GetIdeas(r.userId)', r.i, DOMAIN r.i)
              /\ Replays(ideas, IdeaRow(r.userId, r.i)) =>
                    GetIdeas(r.userId)' = GetIdeas(r.userId)
        /\ \A r \in noteReqs : r \notin noteReqs' =>
              /\ OneEqual(GetNotes(r.userId)', r.n, DOMAIN r.n)
              /\ Replays(notes, NoteRow(r.userId, r.n)) =>
                    GetNotes(r.userId)' = GetNotes(r.userId)
        /\ \A r \in restReqs : (r.route = "highlights" /\ r \notin restReqs') =>
              /\ OneEqual(GetHighlights(r.userId)', r.body, DOMAIN r.body)
              /\ Replays(highlights, HighlightRow(r.userId, r.body)) =>
                    GetHighlights(r.userId)' = GetHighlights(r.userId)
        /\ \A r \in restReqs : (r.route = "calendar" /\ r \notin restReqs') =>
              /\ OneEqual(GetCalendar(r.userId)', r.body, DOMAIN r.body)
              /\ Replays(calendar_events, CalendarEventRow(r.userId, r.body)) =>
                    GetCalendar(r.userId)' = GetCalendar(r.userId)
        /\ \A r \in restReqs : (r.route = "links" /\ r \notin restReqs') =>
              /\ OneEqual(GetLinks(r.userId)', r.body, DOMAIN r.body)
              /\ Replays(useful_links, UsefulLinkRow(r.userId, r.body)) =>
                    GetLinks(r.userId)' = GetLinks(r.userId)
      ]_vars

(***************************************************************************)
(* POST /api/auth/register                                                 *)
(***************************************************************************)
Emails == {"A@x.io", "a@x.io", "b@x.io"}

\* String.prototype.toLowerCase and SQL LOWER on the emails of the model
ToLowerCase(str) == IF str = "A@x.io" THEN "a@x.io" ELSE str

\* password.length on the passwords of the model
Length(password) ==
    CASE password = "" -> 0 [] password = "abc" -> 3 [] OTHER -> 6

\* 'user-' + Date.now() + '-' + <random>: the ids it may produce
UserIds == {"u1", "u2", "u3"}

RegisterBody(email, password, name) ==
    [email |-> email, password |-> password, name |-> name]

RegReq(body, pc) == [body |-> body, pc |-> pc]

\* res.status(status).json({ error }) or res.json({ message }) to the
\* request with the body
AuthReply(body, status, error) == [to |-> body, status |-> status, error |-> error]

\* the handler up to db.get: the two checks of the body
Register(body) ==
    /\ \A pc \in {"lookup", "insert"} : RegReq(body, pc) \notin regReqs
    /\ IF body.email = "" \/ body.password = "" \/ body.name = ""
       THEN /\ authReply' =
                  AuthReply(body, 400, "Email, password, and name are required")
            /\ UNCHANGED regReqs
       ELSE IF Length(body.password) < 6
       THEN /\ authReply' =
                  AuthReply(body, 400, "Password must be at least 6 characters")
            /\ UNCHANGED regReqs
       ELSE /\ Cardinality(regReqs) < MaxInFlight
            /\ regReqs' = regReqs \cup {RegReq(body, "lookup")}
            /\ UNCHANGED authReply
    /\ UNCHANGED users

\* the callback of SELECT id FROM users WHERE email = ?
RegisterLookup(r) ==
    /\ r \in regReqs
    /\ r.pc = "lookup"
    /\ IF \E i \in DOMAIN users : users[i].email = ToLowerCase(r.body.email)
       THEN /\ authReply' = AuthReply(r.body, 400, "Email already registered")
            /\ regReqs' = regReqs \ {r}
       ELSE /\ regReqs' = (regReqs \ {r}) \cup {RegReq(r.body, "insert")}
            /\ UNCHANGED authReply
    /\ UNCHANGED users

UserRow(id, body) ==
    [id |-> id, email |-> ToLowerCase(body.email),
     passwordHash |-> <<"bcrypt", body.password>>, name |-> body.name,
     createdAt |-> "c0"]

\* INSERT INTO users without the UNIQUE constraint on email
InsertUserAnyEmail(table, row) == Insert(table, row)

\* INSERT INTO users: id is the primary key, email is UNIQUE
InsertUser(table, row) ==
    IF \E i \in DOMAIN table : table[i].email = row.email THEN table
    ELSE Insert(table, row)

\* after bcrypt.hash: the insert and its callback
RegisterInsert(r, id) ==
    /\ r \in regReqs
    /\ r.pc = "insert"
    /\ users' = InsertUser(users, UserRow(id, r.body))
    /\ authReply' =
          IF users' = users
          THEN AuthReply(r.body, 500, "SQLITE_CONSTRAINT")
          ELSE AuthReply(r.body, 200, NULL)
    /\ regReqs' = regReqs \ {r}

(***************************************************************************)
(* SpecReg: registrations                                                  *)
(***************************************************************************)
RegisterBodies ==
    { RegisterBody(email, "secret", name) : email \in Emails, name \in {"n1", "n2"} }
    \cup { RegisterBody("a@x.io", password, "n1") : password \in {"abc", ""} }
    \cup { RegisterBody("", "secret", "n1"), RegisterBody("b@x.io", "secret", "") }

InitReg == InitTask

\* the state that registration never touches
notReg == <<storeProj, tasks, projReqs, taskReqs, appTask, ideaVars, engVars,
            noteVars, restVars, incoming, migration, appOther, settings,
            clock>>

NextReg ==
    \/ \E body \in RegisterBodies : Register(body) /\ UNCHANGED notReg
    \/ \E r \in regReqs : RegisterLookup(r) /\ UNCHANGED notReg
    \/ \E r \in regReqs, id \in UserIds \ Ids(users) :
          RegisterInsert(r, id) /\ UNCHANGED notReg

SpecReg == InitReg /\ [][NextReg]_vars

\* some user has the email, ignoring letter case
Registered(email) ==
    \E i \in DOMAIN users : ToLowerCase(users[i].email) = ToLowerCase(email)

\* the request r is answered in this step
Answered(r) ==
    /\ r \in regReqs
    /\ r \notin regReqs'
    /\ RegReq(r.body, "insert") \notin regReqs'

\* C14 (as claimed): a registration request (one that passes the checks of
\* its body) that is answered while a user with its email, ignoring letter
\* case, is registered gets status 400 with 'Email already registered' and
\* adds no user, in every interleaving of the requests.
C14_Claim ==
    [][ \A r \in regReqs :
          (Answered(r) /\ Registered(r.body.email)) =>
             /\ authReply'.status = 400
             /\ authReply'.error = "Email already registered"
             /\ users' = users
      ]_vars

\* C15: no two users have emails that are equal ignoring letter case, and
\* every stored email is lower case.
C15_UniqueEmails ==
    /\ \A i \in DOMAIN users : users[i].email = ToLowerCase(users[i].email)
    /\ \A i, j \in DOMAIN users :
          ToLowerCase(users[i].email) = ToLowerCase(users[j].email) => i = j

\* two users are registered, one under an email that was sent with a capital
\* letter, and a registration for a taken email has just been turned down
C15_Witness ==
    /\ Len(users) = 2
    /\ authReply.to.email = "A@x.io"
    /\ authReply.status \in {400, 500}
    /\ Registered("A@x.io")

(***************************************************************************)
(* authMiddleware and the routes behind it                                 *)
(***************************************************************************)
\* a JSON web token: the userId of its payload, whether its signature is
\* the one JWT_SECRET gives, and whether it has expired
Token(userId, signed, expired) ==
    [userId |-> userId, signed |-> signed, expired |-> expired]

\* the Authorization header: <<>> when absent, else <<scheme, token>> for
\* the text scheme + ' ' + token
NoHeader == <<>>

\* the payload of the token, read without a check of the signature
JwtDecode(token) == <<token.userId>>

\* jwt.verify(token, JWT_SECRET): <<decoded.userId>>, or <<>> when it throws
JwtVerify(token) ==
    IF token.signed /\ ~token.expired THEN <<token.userId>> ELSE <<>>

\* !authHeader || !authHeader.startsWith('Bearer ')
NoBearer(authHeader) == authHeader = NoHeader \/ authHeader[1] # "Bearer"

AuthReq(route, authHeader, body) ==
    [route |-> route, authHeader |-> authHeader, body |-> body]

\* the handler behind the middleware, up to its first database call
Handle(q, userId) ==
    CASE q.route = "POST /api/ideas" ->
            /\ ideaReqs' = ideaReqs \cup {IdeaReq(userId, q.body)}
            /\ UNCHANGED <<convReqs, restReqs>>
      [] q.route = "POST /api/ideas/:id/convert-to-project" ->
            /\ convReqs' = convReqs \cup
                  {ConvReq(userId, q.body.id, q.body.projectData, FALSE)}
            /\ UNCHANGED <<ideaReqs, restReqs>>
      [] OTHER ->
            /\ restReqs' = restReqs \cup {RestReq(q.route, userId, q.body)}
            /\ UNCHANGED <<ideaReqs, convReqs>>

authMiddleware(q) ==
    /\ q \in incoming
    /\ incoming' = incoming \ {q}
    /\ IF NoBearer(q.authHeader)
       THEN /\ authReply' = AuthReply(q, 401, "No token provided")
            /\ UNCHANGED <<ideaReqs, convReqs, restReqs>>
       ELSE IF JwtVerify(q.authHeader[2]) = <<>>
       THEN /\ authReply' = AuthReply(q, 401, "Invalid token")
            /\ UNCHANGED <<ideaReqs, convReqs, restReqs>>
       ELSE /\ Handle(q, JwtVerify(q.authHeader[2])[1])
            /\ UNCHANGED authReply

\* GET /api/auth/me: the callback of the lookup
GetMe(r) ==
    /\ r \in restReqs
    /\ r.route = "GET /api/auth/me"
    /\ restReqs' = restReqs \ {r}
    /\ LET hits == SelectSeq(users, LAMBDA u : u.id = r.userId)
       IN  authReply' =
              IF hits = <<>> THEN AuthReply(r, 404, "User not found")
              ELSE AuthReply(r, 200, NULL)

\* POST /api/settings/:key: INSERT OR REPLACE under the key userId:key
PostSettings(r) ==
    /\ r \in restReqs
    /\ r.route = "POST /api/settings/:key"
    /\ restReqs' = restReqs \ {r}
    /\ settings' =
          SelectSeq(settings, LAMBDA row : row.key # <<r.userId, r.body.key>>)
             \o << [key |-> <<r.userId, r.body.key>>,
                    value |-> JSONstringify(r.body.value),
                    userId |-> r.userId] >>

(***************************************************************************)
(* SpecAuth: requests with every kind of Authorization header.  The idea   *)
(* that the conversions name is never saved, so each is answered 404 by    *)
(* its lookup.                                                             *)
(***************************************************************************)
AuthHeaders ==
    { NoHeader, <<"Basic", Token("u1", TRUE, FALSE)>>,
      <<"Bearer", Token("u1", FALSE, FALSE)>>,
      <<"Bearer", Token("u1", TRUE, TRUE)>>,
      <<"Bearer", Token("u1", TRUE, FALSE)>>,
      <<"Bearer", Token("u2", TRUE, FALSE)>> }

RouteBodies ==
    { <<"POST /api/ideas",
        Idea("i1", "T1", "x", JArr(<<IdeaEntry("e1", "x")>>), "New", <<NULL, NULL>>)>>,
      <<"POST /api/ideas/:id/convert-to-project",
        [id |-> "i2", projectData |-> EmptyBody]>>,
      <<"GET /api/auth/me", <<>>>>,
      <<"POST /api/settings/:key",
        [key |-> "tabOrder", value |-> JArr(<<JStr("home")>>)]>> }

AuthReqs == { AuthReq(b[1], h, b[2]) : b \in RouteBodies, h \in AuthHeaders }

\* a request arrives
Arrive(q) ==
    /\ Cardinality(incoming) + Cardinality(ideaReqs) + Cardinality(convReqs)
          + Cardinality(restReqs) < MaxConverting
    /\ incoming' = incoming \cup {q}
    /\ UNCHANGED <<authReply, ideaReqs, convReqs, restReqs>>

\* the users who hold tokens are registered
InitAuth ==
    /\ Idle
    /\ RestIdle
    /\ users = << UserRow("u1", RegisterBody("a@x.io", "secret", "n1")),
                  UserRow("u2", RegisterBody("b@x.io", "secret", "n2")) >>
    /\ projects = <<>> /\ project_tasks = <<>> /\ research_notes = <<>>
    /\ tasks = <<>> /\ ideas = <<>> /\ engagements = <<>> /\ notes = <<>>
    /\ highlights = <<>> /\ calendar_events = <<>> /\ useful_links = <<>>
    /\ settings = <<>>

authStore == <<projects, project_tasks, research_notes, tasks, ideas,
               engagements, notes, highlights, calendar_events, useful_links,
               users, settings>>

\* the state that these routes never touch
notAuth == <<project_tasks, research_notes, tasks, engagements, notes,
             highlights, calendar_events, useful_links, users, projReqs,
             taskReqs, engReqs, noteReqs, regReqs, appTask, appIdeas,
             appEngagements, viewState, itemsToDelete, isAddModalOpen, confirms,
             migration, appOther, clock>>

NextAuth ==
    \/ \E q \in AuthReqs :
          /\ Arrive(q)
          /\ UNCHANGED <<projects, ideas, settings, reply, converting, notAuth>>
    \/ \E q \in incoming :
          /\ authMiddleware(q)
          /\ UNCHANGED <<projects, ideas, settings, reply, converting, notAuth>>
    \/ \E r \in ideaReqs :
          /\ PostIdeas(r)
          /\ UNCHANGED <<projects, settings, convReqs, restReqs, incoming,
                         authReply, converting, notAuth>>
    \/ \E r \in convReqs :
          /\ ConvertLookup(r)
          /\ UNCHANGED <<settings, ideaReqs, restReqs, incoming, authReply, notAuth>>
    \/ \E r \in restReqs :
          /\ GetMe(r)
          /\ UNCHANGED <<projects, ideas, settings, ideaReqs, convReqs, incoming,
                         reply, converting, notAuth>>
    \/ \E r \in restReqs :
          /\ PostSettings(r)
          /\ UNCHANGED <<projects, ideas, ideaReqs, convReqs, incoming, authReply,
                         reply, converting, notAuth>>

SpecAuth == InitAuth /\ [][NextAuth]_vars

\* the requests that handlers have taken up
handled == <<ideaReqs, convReqs, restReqs>>

\* the request carries a 'Bearer ' header whose token is signed with
\* JWT_SECRET and has not expired
Verified(q) ==
    /\ q.authHeader # NoHeader
    /\ q.authHeader[1] = "Bearer"
    /\ q.authHeader[2].signed
    /\ ~q.authHeader[2].expired

\* C16: a request without an Authorization header, with one that does not
\* start with 'Bearer ', or with a token that fails verification is answered
\* 401 by the middleware, no handler takes it up and the store is unchanged;
\* a handler takes a request up only in the step in which the middleware
\* passes a request with a verified token, and with the userId of that token.
C16_Unauthorized ==
    [][ /\ \A q \in incoming : (q \notin incoming' /\ ~Verified(q)) =>
              /\ authReply'.status = 401
              /\ authReply'.to = q
              /\ handled' = handled
              /\ authStore' = authStore
        /\ \A r \in (ideaReqs' \ ideaReqs) \cup (restReqs' \ restReqs)
                      \cup {c \in convReqs' \ convReqs : c.pc = "lookup"} :
              \E q \in incoming :
                 /\ q \notin incoming'
                 /\ Verified(q)
                 /\ r.userId = q.authHeader[2].userId
      ]_vars

\* a request with a forged token has just been turned down while the store
\* holds what requests with verified tokens wrote
C16_Witness ==
    /\ authReply.status = 401
    /\ authReply.error = "Invalid token"
    /\ authReply.to.route = "POST /api/settings/:key"
    /\ settings # <<>>
    /\ ideas # <<>>

(***************************************************************************)
(* handleDeleteTask                                                        *)
(***************************************************************************)
\* DELETE /api/tasks/:id as the client sends it
DeleteTaskReq(userId, id) == [userId |-> userId, id |-> id]

DeleteTaskAPI(taskId) == taskReqs' = taskReqs \cup {DeleteTaskReq(Me, taskId)}

\* DELETE /api/tasks/:id
DeleteTasks(r) ==
    /\ r \in taskReqs
    /\ tasks' = DeleteFrom(tasks, r.id, r.userId)
    /\ taskReqs' = taskReqs \ {r}

\* projects.find(p => p.tasks.some(pt => pt.id === taskId)), as a sequence of
\* at most one project
ProjectTaskSource(ps, taskId) ==
    LET hits == SelectSeq(ps, LAMBDA p : \E pt \in Range(p.tasks) : pt.id = taskId)
    IN  IF hits = <<>> THEN <<>> ELSE <<hits[1]>>

\* {...p, tasks: p.tasks.filter(pt => pt.id !== taskId)}
WithoutTask(p, taskId) ==
    [p EXCEPT !.tasks = SelectSeq(p.tasks, LAMBDA pt : pt.id # taskId)]

\* handleDeleteTask. updatedProject is assigned by the updater passed to
\* setProjects, which React calls inside the setter only when the component
\* has no update pending (eager); otherwise the updater runs at the next
\* render, after line 172 has tested updatedProject.
HandleDeleteTask(taskId, eager) ==
    /\ InFlight < MaxInFlight
    /\ LET projectTaskSource == ProjectTaskSource(appProjects, taskId)
       IN  IF projectTaskSource # <<>>
           THEN LET hits == SelectSeq(appProjects,
                               LAMBDA p : p.id = projectTaskSource[1].id)
                    updatedProject ==
                        IF eager THEN <<WithoutTask(hits[Len(hits)], taskId)>>
                        ELSE <<>>
                IN  /\ appProjects' =
                          [i \in DOMAIN appProjects |->
                              IF appProjects[i].id = projectTaskSource[1].id
                              THEN WithoutTask(appProjects[i], taskId)
                              ELSE appProjects[i]]
                    /\ IF updatedProject # <<>>
                       THEN /\ SaveProjectAPI(updatedProject[1])
                            /\ last' = HandlerCall("handleDeleteTask", taskId,
                                  <<Call("saveProjectAPI", updatedProject[1])>>)
                       ELSE /\ projReqs' = projReqs
                            /\ last' = HandlerCall("handleDeleteTask", taskId, <<>>)
                    /\ UNCHANGED <<appTasks, taskReqs>>
           ELSE /\ appTasks' = SelectSeq(appTasks, LAMBDA t : t.id # taskId)
                /\ DeleteTaskAPI(taskId)
                /\ last' = HandlerCall("handleDeleteTask", taskId,
                                       <<Call("deleteTaskAPI", taskId)>>)
                /\ UNCHANGED <<appProjects, projReqs>>

(***************************************************************************)
(* SpecDelete: tasks and projects added and tasks deleted.  Two projects   *)
(* and the standalone collection each hold a task with the id t1.          *)
(***************************************************************************)
DeletableProjects ==
    { InternalProject("p1", "n1", <<PT("t1", "a", FALSE), PT("t2", "a", FALSE)>>, <<>>),
      InternalProject("p2", "n2", <<PT("t1", "b", TRUE)>>, <<>>) }

DeletableTasks == { Task("t1", "a", FALSE, NULL, NULL) }

DeletedIds == {"t1", "t9"}

NextDelete ==
    \/ \E t \in DeletableTasks :
          /\ t.id \notin Ids(appTasks)
          /\ HandleAddTask(t)
          /\ UNCHANGED <<storeProj, tasks, notTask>>
    \/ \E p \in DeletableProjects :
          /\ p.id \notin Ids(appProjects)
          /\ HandleAddProject(p)
          /\ UNCHANGED <<storeProj, tasks, notTask>>
    \/ \E taskId \in DeletedIds, eager \in BOOLEAN :
          /\ HandleDeleteTask(taskId, eager)
          /\ UNCHANGED <<storeProj, tasks, notTask>>
    \/ \E r \in projReqs :
          /\ PostProjectsParent(r)
          /\ UNCHANGED <<tasks, taskReqs, appTask, notTask>>
    \/ \E r \in projReqs :
          /\ PostProjectsChildren(r)
          /\ UNCHANGED <<tasks, taskReqs, appTask, notTask>>
    \/ \E r \in taskReqs :
          /\ "t" \in DOMAIN r
          /\ PostTasks(r)
          /\ UNCHANGED <<storeProj, projReqs, appTask, notTask>>
    \/ \E r \in taskReqs :
          /\ "id" \in DOMAIN r
          /\ DeleteTasks(r)
          /\ UNCHANGED <<storeProj, projReqs, appTask, notTask>>

SpecDelete == InitTask /\ [][NextDelete]_vars

\* the projects with taskId removed from the project at position k only
RemovedAt(ps, k, taskId) ==
    [i \in DOMAIN ps |-> IF i = k THEN WithoutTask(ps[i], taskId) ELSE ps[i]]

\* the position of the first project that holds a ProjectTask with the id
FirstHolder(ps, taskId) ==
    CHOOSE k \in DOMAIN ps :
        /\ \E pt \in Range(ps[k].tasks) : pt.id = taskId
        /\ \A j \in 1..(k-1) : \A pt \in Range(ps[j].tasks) : pt.id # taskId

\* what the dispatch of handleDeleteTask(taskId) is to do in this step
Dispatched(taskId) ==
    IF ProjectTaskSource(appProjects, taskId) # <<>>
    THEN \A k \in {FirstHolder(appProjects, taskId)} :
           /\ appProjects' = RemovedAt(appProjects, k, taskId)
           /\ last'.calls = <<Call("saveProjectAPI", appProjects'[k])>>
           /\ ProjectReq(Me, appProjects'[k], "parent") \in projReqs'
           /\ appTasks' = appTasks
           /\ taskReqs' = taskReqs
    ELSE /\ appTasks' = SelectSeq(appTasks, LAMBDA t : t.id # taskId)
         /\ last'.calls = <<Call("deleteTaskAPI", taskId)>>
         /\ DeleteTaskReq(Me, taskId) \in taskReqs'
         /\ appProjects' = appProjects
         /\ projReqs' = projReqs

\* C17: handleDeleteTask(id) removes the ProjectTask from the one project
\* that holds it and sends that whole project to the project upsert, with
\* the standalone tasks unchanged and no task delete request; when no
\* project holds the id it removes the standalone task and issues the task
\* delete request, with no project changed.
C17_Claim ==
    [][ Called("handleDeleteTask") => Dispatched(last'.arg) ]_vars

\* the dispatch is as stated in every call that issues a request
C17_WhenRequestIssued ==
    [][ (Called("handleDeleteTask") /\ last'.calls # <<>>) =>
            Dispatched(last'.arg) ]_vars

(***************************************************************************)
(* SpecMaster: the task list shown while tasks and projects change and     *)
(* days pass                                                               *)
(***************************************************************************)
\* midnight passes; nothing renders
NextDay ==
    /\ clock.now < Len(Dates)
    /\ clock' = [clock EXCEPT !.now = clock.now + 1]

\* the state that neither the task handlers nor the clock touch
notMaster == <<ideaVars, engVars, noteVars, restVars, userVars, migration,
               appOther, settings>>

NextMaster ==
    \/ \E t \in AddedTasks :
          /\ t.id \notin Ids(appTasks)
          /\ HandleAddTask(t)
          /\ Recomputed
          /\ UNCHANGED <<storeProj, tasks, notMaster>>
    \/ \E p \in DeletableProjects :
          /\ p.id \notin Ids(appProjects)
          /\ HandleAddProject(p)
          /\ Recomputed
          /\ UNCHANGED <<storeProj, tasks, notMaster>>
    \/ \E taskId \in DeletedIds, eager \in BOOLEAN :
          /\ HandleDeleteTask(taskId, eager)
          /\ Recomputed
          /\ UNCHANGED <<storeProj, tasks, notMaster>>
    \/ /\ NextDay
       /\ UNCHANGED <<storeProj, tasks, projReqs, taskReqs, appTask, notMaster>>
    \/ \E r \in projReqs :
          /\ PostProjectsParent(r)
          /\ UNCHANGED <<tasks, taskReqs, appTask, notTask>>
    \/ \E r \in projReqs :
          /\ PostProjectsChildren(r)
          /\ UNCHANGED <<tasks, taskReqs, appTask, notTask>>
    \/ \E r \in taskReqs :
          /\ "t" \in DOMAIN r
          /\ PostTasks(r)
          /\ UNCHANGED <<storeProj, projReqs, appTask, notTask>>
    \/ \E r \in taskReqs :
          /\ "id" \in DOMAIN r
          /\ DeleteTasks(r)
          /\ UNCHANGED <<storeProj, projReqs, appTask, notTask>>

SpecMaster == InitTask /\ [][NextMaster]_vars

\* the number of ProjectTasks in the first k projects
RECURSIVE TasksBefore(_, _)
TasksBefore(ps, k) ==
    IF k = 0 THEN 0 ELSE TasksBefore(ps, k - 1) + Len(ps[k].tasks)

\* list is the standalone tasks followed by one view per ProjectTask, in
\* project order and then task order, each with the date today
IsMasterList(list, today) ==
    /\ Len(list) = Len(appTasks) + TasksBefore(appProjects, Len(appProjects))
    /\ \A i \in DOMAIN appTasks : list[i] = appTasks[i]
    /\ \A k \in DOMAIN appProjects : \A j \in DOMAIN appProjects[k].tasks :
          \A v \in {list[Len(appTasks) + TasksBefore(appProjects, k - 1) + j]} :
             /\ v.id = appProjects[k].tasks[j].id
             /\ v.content = appProjects[k].tasks[j].content
             /\ v.isCompleted = appProjects[k].tasks[j].isCompleted
             /\ v.type = "daily"
             /\ v.date = today
             /\ v.projectId = appProjects[k].id
             /\ v.projectName = appProjects[k].name

\* C18: in every client state masterTasksList is the standalone tasks, in
\* order and unaltered, followed by exactly one view per ProjectTask of
\* every project, with the ProjectTask's id, content and isCompleted, type
\* 'daily', the date of today and the id and name of the owning project.
C18_Claim == IsMasterList(MasterTasksList, Dates[clock.now])

\* the same with the date of the day on which tasks or projects last changed
C18_AsComputed == IsMasterList(MasterTasksList, Dates[clock.memo])

(***************************************************************************)
(* The client: the update handlers of the collections                      *)
(***************************************************************************)
\* the variant of the updater that adds an object whose id is not listed
MapUpdateOrAppend(prev, updated) ==
    IF \E i \in DOMAIN prev : prev[i].id = updated.id
    THEN [i \in DOMAIN prev |-> IF prev[i].id = updated.id THEN updated ELSE prev[i]]
    ELSE Append(prev, updated)

\* prev.map(x => x.id === updated.id ? updated : x)
MapUpdate(prev, updated) ==
    [i \in DOMAIN prev |-> IF prev[i].id = updated.id THEN updated ELSE prev[i]]

InFlightUpdate ==
    Cardinality(engReqs) + Cardinality(projReqs) + Cardinality(ideaReqs)
       + Cardinality(restReqs) + Cardinality(noteReqs)

\* Dashboard: onEdit of a listed engagement opens EditEngagementModal
OnEdit(e) ==
    /\ DashboardRendered
    /\ e \in Range(appEngagements)
    /\ appOther' = [appOther EXCEPT !.editingEngagement = <<e>>]

\* EditEngagementModal: onClose
OnCloseEdit ==
    /\ appOther.editingEngagement # <<>>
    /\ appOther' = [appOther EXCEPT !.editingEngagement = <<>>]

HandleUpdateEngagement(updatedEngagement) ==
    /\ InFlightUpdate < MaxInFlight
    /\ appEngagements' = MapUpdate(appEngagements, updatedEngagement)
    /\ appOther' = [appOther EXCEPT !.editingEngagement = <<>>]
    /\ SaveEngagementAPI(updatedEngagement)
    /\ last' = HandlerCall("handleUpdateEngagement", updatedEngagement,
                           <<Call("saveEngagementAPI", updatedEngagement)>>)

HandleUpdateHighlight(updatedHighlight) ==
    /\ InFlightUpdate < MaxInFlight
    /\ appOther' = [appOther EXCEPT
                       !.highlights = MapUpdate(@, updatedHighlight)]
    /\ restReqs' = restReqs \cup {RestReq("highlights", Me, updatedHighlight)}
    /\ last' = HandlerCall("handleUpdateHighlight", updatedHighlight,
                           <<Call("saveHighlightAPI", updatedHighlight)>>)

HandleUpdateProject(updatedProject) ==
    /\ InFlightUpdate < MaxInFlight
    /\ appProjects' = MapUpdate(appProjects, updatedProject)
    /\ SaveProjectAPI(updatedProject)
    /\ last' = HandlerCall("handleUpdateProject", updatedProject,
                           <<Call("saveProjectAPI", updatedProject)>>)

HandleUpdateEvent(updatedEvent) ==
    /\ InFlightUpdate < MaxInFlight
    /\ appOther' = [appOther EXCEPT !.events = MapUpdate(@, updatedEvent)]
    /\ restReqs' = restReqs \cup {RestReq("calendar", Me, updatedEvent)}
    /\ last' = HandlerCall("handleUpdateEvent", updatedEvent,
                           <<Call("saveCalendarEventAPI", updatedEvent)>>)

HandleUpdateNote(updatedNote) ==
    /\ InFlightUpdate < MaxInFlight
    /\ appOther' = [appOther EXCEPT !.notes = MapUpdate(@, updatedNote)]
    /\ noteReqs' = noteReqs \cup {NoteReq(Me, updatedNote)}
    /\ last' = HandlerCall("handleUpdateNote", updatedNote,
                           <<Call("saveNoteAPI", updatedNote)>>)

(***************************************************************************)
(* SpecUpdate: one collection is loaded with two objects, and objects with *)
(* a listed id and with an id that is not listed are handed to its update  *)
(* handler                                                                 *)
(***************************************************************************)
Collections == {"engagements", "highlights", "projects", "ideas", "events", "notes"}

\* the object of a collection with the given id and text
Object(kind, id, text) ==
    CASE kind = "engagements" ->
            [Engagement(id, JArr(<<>>), JArr(<<>>)) EXCEPT !.name = text]
      [] kind = "highlights" -> Highlight(id, text, FALSE)
      [] kind = "projects" -> InternalProject(id, text, <<>>, <<>>)
      [] kind = "ideas" ->
            Idea(id, text, "x", JArr(<<IdeaEntry("e1", "x")>>), "New", <<NULL, NULL>>)
      [] kind = "events" -> CalendarEvent(id, text, FALSE)
      [] kind = "notes" -> [Note(id, JArr(<<>>)) EXCEPT !.title = text]

Loaded(kind, loaded) ==
    IF kind = loaded THEN <<Object(kind, "x1", "a"), Object(kind, "x2", "a")>>
    ELSE <<>>

\* the objects handed to the handler of a collection
Updates(kind) == { Object(kind, id, "b") : id \in {"x1", "x2", "x9"} }

\* App after its fetches: the collection holds what the store holds, and
\* the tab of the collection is open
InitUpdate ==
    \E loaded \in Collections :
       /\ appEngagements = Loaded("engagements", loaded)
       /\ appProjects = Loaded("projects", loaded)
       /\ appIdeas = Loaded("ideas", loaded)
       /\ appOther = [highlights |-> Loaded("highlights", loaded),
                      events |-> Loaded("events", loaded), links |-> <<>>,
                      notes |-> Loaded("notes", loaded),
                      editingEngagement |-> <<>>]
       /\ engagements = [i \in DOMAIN appEngagements |->
                            EngagementRow(Me, appEngagements[i])]
       /\ projects = [i \in DOMAIN appProjects |-> ProjectRow(Me, appProjects[i])]
       /\ ideas = [i \in DOMAIN appIdeas |-> IdeaRow(Me, appIdeas[i])]
       /\ highlights = [i \in DOMAIN appOther.highlights |->
                           HighlightRow(Me, appOther.highlights[i])]
       /\ calendar_events = [i \in DOMAIN appOther.events |->
                                CalendarEventRow(Me, appOther.events[i])]
       /\ notes = [i \in DOMAIN appOther.notes |-> NoteRow(Me, appOther.notes[i])]
       /\ viewState = [tab |-> IF loaded = "engagements" THEN "engagements"
                               ELSE "home",
                       view |-> "dashboard", targetId |-> NULL]
       /\ project_tasks = <<>> /\ research_notes = <<>> /\ tasks = <<>>
       /\ useful_links = <<>> /\ users = <<>> /\ settings = <<>>
       /\ projReqs = {} /\ taskReqs = {} /\ ideaReqs = {} /\ convReqs = {}
       /\ engReqs = {} /\ noteReqs = {} /\ restReqs = {} /\ regReqs = {}
       /\ incoming = {}
       /\ reply = [route |-> "none", to |-> <<>>, status |-> 0, body |-> <<>>]
       /\ authReply = [to |-> <<>>, status |-> 0, error |-> NULL]
       /\ appTasks = <<>> /\ converting = <<>> /\ itemsToDelete = NULL
       /\ isAddModalOpen = FALSE /\ confirms = {}
       /\ last = [op |-> "none", arg |-> NULL, calls |-> <<>>, tick |-> 0]
       /\ migration = [pc |-> "done", user |-> NULL, next |-> 0]
       /\ clock = [now |-> 1, memo |-> 1]

updStore == <<engagements, storeProj, ideas, highlights, calendar_events,
              notes, reply>>

\* the state that the update handlers and their routes never touch
notUpdate == <<tasks, taskReqs, appTasks, convReqs, converting, viewState,
               itemsToDelete, isAddModalOpen, confirms, useful_links, userVars,
               migration, settings, clock>>

NextUpdate ==
    \/ \E e \in Range(appEngagements) :
          /\ OnEdit(e)
          /\ UNCHANGED <<appEngagements, appProjects, appIdeas, last, engReqs,
                         projReqs, ideaReqs, restReqs, noteReqs, updStore,
                         notUpdate>>
    \/ /\ OnCloseEdit
       /\ UNCHANGED <<appEngagements, appProjects, appIdeas, last, engReqs,
                      projReqs, ideaReqs, restReqs, noteReqs, updStore, notUpdate>>
    \/ \E e \in Updates("engagements") :
          /\ appEngagements # <<>>
          /\ HandleUpdateEngagement(e)
          /\ UNCHANGED <<appProjects, appIdeas, projReqs, ideaReqs, restReqs,
                         noteReqs, updStore, notUpdate>>
    \/ \E h \in Updates("highlights") :
          /\ appOther.highlights # <<>>
          /\ HandleUpdateHighlight(h)
          /\ UNCHANGED <<appEngagements, appProjects, appIdeas, engReqs,
                         projReqs, ideaReqs, noteReqs, updStore, notUpdate>>
    \/ \E p \in Updates("projects") :
          /\ appProjects # <<>>
          /\ HandleUpdateProject(p)
          /\ UNCHANGED <<appEngagements, appIdeas, appOther, engReqs, ideaReqs,
                         restReqs, noteReqs, updStore, notUpdate>>
    \/ \E i \in Updates("ideas") :
          /\ appIdeas # <<>>
          /\ InFlightUpdate < MaxInFlight
          /\ HandleUpdateIdea(i)
          /\ UNCHANGED <<appEngagements, appProjects, appOther, engReqs,
                         projReqs, restReqs, noteReqs, updStore, notUpdate>>
    \/ \E e \in Updates("events") :
          /\ appOther.events # <<>>
          /\ HandleUpdateEvent(e)
          /\ UNCHANGED <<appEngagements, appProjects, appIdeas, engReqs,
                         projReqs, ideaReqs, noteReqs, updStore, notUpdate>>
    \/ \E n \in Updates("notes") :
          /\ appOther.notes # <<>>
          /\ HandleUpdateNote(n)
          /\ UNCHANGED <<appEngagements, appProjects, appIdeas, engReqs,
                         projReqs, ideaReqs, restReqs, updStore, notUpdate>>
    \/ \E r \in engReqs :
          /\ PostEngagements(r)
          /\ UNCHANGED <<storeProj, ideas, highlights, calendar_events, notes,
                         reply, projReqs, ideaReqs, restReqs, noteReqs,
                         appEngagements, appProjects, appIdeas, appOther, last,
                         notUpdate>>
    \/ \E r \in projReqs :
          /\ PostProjectsParent(r)
          /\ UNCHANGED <<engagements, ideas, highlights, calendar_events, notes,
                         reply, engReqs, ideaReqs, restReqs, noteReqs,
                         appEngagements, appProjects, appIdeas, appOther, last,
                         notUpdate>>
    \/ \E r \in projReqs :
          /\ PostProjectsChildren(r)
          /\ UNCHANGED <<engagements, ideas, highlights, calendar_events, notes,
                         reply, engReqs, ideaReqs, restReqs, noteReqs,
                         appEngagements, appProjects, appIdeas, appOther, last,
                         notUpdate>>
    \/ \E r \in ideaReqs :
          /\ PostIdeas(r)
          /\ UNCHANGED <<engagements, storeProj, highlights, calendar_events,
                         notes, engReqs, projReqs, restReqs, noteReqs,
                         appEngagements, appProjects, appIdeas, appOther, last,
                         notUpdate>>
    \/ \E r \in restReqs :
          /\ PostHighlights(r)
          /\ UNCHANGED <<engagements, storeProj, ideas, notes, reply, engReqs,
                         projReqs, ideaReqs, noteReqs, appEngagements,
                         appProjects, appIdeas, appOther, last, tasks, taskReqs,
                         appTasks, convReqs, converting, viewState,
                         itemsToDelete, isAddModalOpen, confirms, userVars,
                         migration, settings, clock>>
    \/ \E r \in restReqs :
          /\ PostCalendar(r)
          /\ UNCHANGED <<engagements, storeProj, ideas, notes, reply, engReqs,
                         projReqs, ideaReqs, noteReqs, appEngagements,
                         appProjects, appIdeas, appOther, last, tasks, taskReqs,
                         appTasks, convReqs, converting, viewState,
                         itemsToDelete, isAddModalOpen, confirms, userVars,
                         migration, settings, clock>>
    \/ \E r \in noteReqs :
          /\ PostNotes(r)
          /\ UNCHANGED <<engagements, storeProj, ideas, highlights,
                         calendar_events, reply, engReqs, projReqs, ideaReqs,
                         restReqs, appEngagements, appProjects, appIdeas,
                         appOther, last, notUpdate>>

SpecUpdate == InitUpdate /\ [][NextUpdate]_vars

\* the collection that the handler op updates, and the request it makes
CollectionOf(op) ==
    CASE op = "handleUpdateEngagement" -> appEngagements
      [] op = "handleUpdateHighlight" -> appOther.highlights
      [] op = "handleUpdateProject" -> appProjects
      [] op = "handleUpdateIdea" -> appIdeas
      [] op = "handleUpdateEvent" -> appOther.events
      [] op = "handleUpdateNote" -> appOther.notes

SaveOf(op) ==
    CASE op = "handleUpdateEngagement" -> "saveEngagementAPI"
      [] op = "handleUpdateHighlight" -> "saveHighlightAPI"
      [] op = "handleUpdateProject" -> "saveProjectAPI"
      [] op = "handleUpdateIdea" -> "saveIdeaAPI"
      [] op = "handleUpdateEvent" -> "saveCalendarEventAPI"
      [] op = "handleUpdateNote" -> "saveNoteAPI"

\* the request with body e is in flight on the route of op
Requested(op, e) ==
    CASE op = "handleUpdateEngagement" -> SaveEngagementReq(Me, e) \in engReqs
      [] op = "handleUpdateHighlight" -> RestReq("highlights", Me, e) \in restReqs
      [] op = "handleUpdateProject" -> ProjectReq(Me, e, "parent") \in projReqs
      [] op = "handleUpdateIdea" -> IdeaReq(Me, e) \in ideaReqs
      [] op = "handleUpdateEvent" -> RestReq("calendar", Me, e) \in restReqs
      [] op = "handleUpdateNote" -> NoteReq(Me, e) \in noteReqs

UpdateHandlers ==
    {"handleUpdateEngagement", "handleUpdateHighlight", "handleUpdateProject",
     "handleUpdateIdea", "handleUpdateEvent", "handleUpdateNote"}

\* C19: update(e) replaces exactly the element whose id is e.id and leaves
\* every other element, the order and the length as they were; when no
\* element has that id the collection is unchanged; in both cases exactly
\* one upsert request is made, with the whole object e.
C19_Update ==
    [][ \A op \in UpdateHandlers : Called(op) =>
          \A e \in {last'.arg} :
             /\ Len(CollectionOf(op)') = Len(CollectionOf(op))
             /\ \A i \in DOMAIN CollectionOf(op) :
                   CollectionOf(op)'[i] =
                      IF CollectionOf(op)[i].id = e.id THEN e
                      ELSE CollectionOf(op)[i]
             /\ (\A x \in Range(CollectionOf(op)) : x.id # e.id) =>
                   CollectionOf(op)' = CollectionOf(op)
             /\ last'.calls = <<Call(SaveOf(op), e)>>
             /\ Requested(op, e)'
      ]_vars

\* an object whose id is not listed has been handed to an update handler
\* after an object of the second position was replaced
C19_Witness ==
    /\ last.op \in UpdateHandlers
    /\ \A x \in Range(CollectionOf(last.op)) : x.id # last.arg.id
    /\ Len(CollectionOf(last.op)) = 2
    /\ CollectionOf(last.op)[2] = [last.arg EXCEPT !.id = "x2"]

(***************************************************************************)
(* migrateToMultiTenancy                                                   *)
(***************************************************************************)
\* the address of RISHAV_EMAIL among the emails of the model
RISHAV_EMAIL == "a@x.io"

\* the tables that the migration updates, in the order of its updates; the
\* update of settings follows them
MigratedTables ==
    <<"engagements", "tasks", "projects", "highlights", "ideas",
      "calendar_events", "useful_links", "notes">>

\* UPDATE table SET userId = ?, on every row
AssignAll(table, userId) ==
    [i \in DOMAIN table |-> [table[i] EXCEPT !.userId = userId]]

\* UPDATE table SET userId = ? WHERE userId IS NULL
AssignUnowned(table, userId) ==
    [i \in DOMAIN table |->
        IF table[i].userId = NULL THEN [table[i] EXCEPT !.userId = userId]
        ELSE table[i]]

\* the table that the update at position k writes, after that update
Migrated(table, k, name) ==
    IF migration.next <= Len(MigratedTables) /\ MigratedTables[migration.next] = name
    THEN AssignUnowned(table, migration.user)
    ELSE table

\* the callback of setTimeout: the lookup of the user and its callback
MigrationLookup ==
    /\ migration.pc = "timer"
    /\ LET hits == SelectSeq(users,
               LAMBDA u : ToLowerCase(u.email) = ToLowerCase(RISHAV_EMAIL))
       IN  migration' =
              IF hits = <<>> THEN [migration EXCEPT !.pc = "done"]
              ELSE [pc |-> "update", user |-> hits[1].id, next |-> 1]
    /\ UNCHANGED <<engagements, tasks, projects, highlights, ideas,
                   calendar_events, useful_links, notes, settings>>

\* the next of the queued updates
MigrationUpdate ==
    /\ migration.pc = "update"
    /\ engagements' = Migrated(engagements, migration.next, "engagements")
    /\ tasks' = Migrated(tasks, migration.next, "tasks")
    /\ projects' = Migrated(projects, migration.next, "projects")
    /\ highlights' = Migrated(highlights, migration.next, "highlights")
    /\ ideas' = Migrated(ideas, migration.next, "ideas")
    /\ calendar_events' = Migrated(calendar_events, migration.next, "calendar_events")
    /\ useful_links' = Migrated(useful_links, migration.next, "useful_links")
    /\ notes' = Migrated(notes, migration.next, "notes")
    /\ settings' = IF migration.next = Len(MigratedTables) + 1
                   THEN AssignUnowned(settings, migration.user) ELSE settings
    /\ migration' = IF migration.next = Len(MigratedTables) + 1
                    THEN [migration EXCEPT !.pc = "done"]
                    ELSE [migration EXCEPT !.next = migration.next + 1]

(***************************************************************************)
(* SpecMigrate: the server starts on a database file written before the    *)
(* tables had owners, while a user saves tasks and the legacy user         *)
(* registers                                                               *)
(***************************************************************************)
\* the rows of the file: one without an owner in each table named in
\* legacy, and one of the user u2 in every table
FileRows(name, legacy, unowned, owned) ==
    (IF name \in legacy THEN <<unowned>> ELSE <<>>) \o <<owned>>

LegacySets == { {}, {"engagements", "notes"}, Range(MigratedTables) }

InitMigrate ==
    /\ Idle
    /\ restReqs = {} /\ regReqs = {} /\ incoming = {}
    /\ authReply = [to |-> <<>>, status |-> 0, error |-> NULL]
    /\ appOther = [highlights |-> <<>>, events |-> <<>>, links |-> <<>>,
                   notes |-> <<>>, editingEngagement |-> <<>>]
    /\ clock = [now |-> 1, memo |-> 1]
    /\ migration = [pc |-> "timer", user |-> NULL, next |-> 0]
    /\ project_tasks = <<>> /\ research_notes = <<>>
    /\ users \in
          { <<UserRow("u2", RegisterBody("b@x.io", "secret", "n2"))>>,
            <<UserRow("u2", RegisterBody("b@x.io", "secret", "n2")),
              UserRow("u1", RegisterBody("A@x.io", "secret", "n1"))>> }
    /\ \E legacy \in LegacySets :
          /\ engagements = FileRows("engagements", legacy,
                EngagementRow(NULL, Object("engagements", "g1", "a")),
                EngagementRow("u2", Object("engagements", "o1", "a")))
          /\ tasks = FileRows("tasks", legacy,
                TaskRow(NULL, Task("g1", "a", FALSE, NULL, NULL)),
                TaskRow("u2", Task("o1", "a", FALSE, NULL, NULL)))
          /\ projects = FileRows("projects", legacy,
                ProjectRow(NULL, Object("projects", "g1", "a")),
                ProjectRow("u2", Object("projects", "o1", "a")))
          /\ highlights = FileRows("highlights", legacy,
                HighlightRow(NULL, Object("highlights", "g1", "a")),
                HighlightRow("u2", Object("highlights", "o1", "a")))
          /\ ideas = FileRows("ideas", legacy,
                IdeaRow(NULL, Object("ideas", "g1", "a")),
                IdeaRow("u2", Object("ideas", "o1", "a")))
          /\ calendar_events = FileRows("calendar_events", legacy,
                CalendarEventRow(NULL, Object("events", "g1", "a")),
                CalendarEventRow("u2", Object("events", "o1", "a")))
          /\ useful_links = FileRows("useful_links", legacy,
                UsefulLinkRow(NULL, UsefulLink("g1", "a")),
                UsefulLinkRow("u2", UsefulLink("o1", "a")))
          /\ notes = FileRows("notes", legacy,
                NoteRow(NULL, Object("notes", "g1", "a")),
                NoteRow("u2", Object("notes", "o1", "a")))
          /\ settings = FileRows("settings", legacy \cup {"settings"},
                [key |-> <<"tabOrder">>, value |-> JSONstringify(JArr(<<>>)),
                 userId |-> NULL],
                [key |-> <<"u2", "tabOrder">>,
                 value |-> JSONstringify(JArr(<<>>)), userId |-> "u2"])

\* what u2 saves meanwhile: a task of its own, and one with the id of the
\* task without an owner
SavedMeanwhile == { Task(id, "b", FALSE, NULL, NULL) : id \in {"g1", "s2"} }

\* the registration of the legacy user
LegacyBodies == { RegisterBody("A@x.io", "secret", "n1") }

migrated == <<engagements, tasks, projects, highlights, ideas,
              calendar_events, useful_links, notes>>

\* the state that neither the migration nor these requests touch
notMigrate == <<project_tasks, research_notes, projReqs, ideaReqs, convReqs,
                engReqs, noteReqs, restReqs, incoming, reply, appTask, appIdeas,
                converting, appEngagements, viewState, itemsToDelete,
                isAddModalOpen, confirms, appOther, clock>>

NextMigrate ==
    \/ /\ MigrationLookup
       /\ UNCHANGED <<users, regReqs, authReply, taskReqs, notMigrate>>
    \/ /\ MigrationUpdate
       /\ UNCHANGED <<users, regReqs, authReply, taskReqs, notMigrate>>
    \/ \E t \in SavedMeanwhile :
          /\ Cardinality(taskReqs) < MaxConverting
          /\ taskReqs' = taskReqs \cup {TaskReq("u2", t)}
          /\ UNCHANGED <<migrated, settings, migration, users, regReqs,
                         authReply, notMigrate>>
    \/ \E r \in taskReqs :
          /\ PostTasks(r)
          /\ UNCHANGED <<engagements, projects, highlights, ideas,
                         calendar_events, useful_links, notes, settings,
                         migration, users, regReqs, authReply, notMigrate>>
    \/ \E body \in LegacyBodies :
          /\ Register(body)
          /\ UNCHANGED <<migrated, settings, migration, taskReqs, notMigrate>>
    \/ \E r \in regReqs :
          /\ RegisterLookup(r)
          /\ UNCHANGED <<migrated, settings, migration, taskReqs, notMigrate>>
    \/ \E r \in regReqs, id \in {"u1"} \ Ids(users) :
          /\ RegisterInsert(r, id)
          /\ UNCHANGED <<migrated, settings, migration, taskReqs, notMigrate>>

SpecMigrate == InitMigrate /\ [][NextMigrate]_vars

\* the rows of the eight tables, table by table
TableAt(k) ==
    CASE k = 1 -> engagements [] k = 2 -> tasks [] k = 3 -> projects
      [] k = 4 -> highlights [] k = 5 -> ideas [] k = 6 -> calendar_events
      [] k = 7 -> useful_links [] k = 8 -> notes

\* some user has the address of RISHAV_EMAIL, ignoring letter case
LegacyUserPresent ==
    \E i \in DOMAIN users : ToLowerCase(users[i].email) = ToLowerCase(RISHAV_EMAIL)

NoUnowned == \A k \in DOMAIN MigratedTables : \A row \in Range(TableAt(k)) : row.userId # NULL

\* C20: with the legacy user present when the updates run, each update gives
\* every row whose userId is null the id of the legacy user and leaves the
\* rows with a userId as they were, and after the updates no row of the
\* eight tables has a null userId; with the legacy user absent the
\* lookup ends the migration, which then modifies no row.
C20_Migration ==
    [][ /\ (migration.pc = "update" /\ migration' # migration) =>
              \A k \in DOMAIN MigratedTables :
                 IF k = migration.next
                 THEN /\ Len(TableAt(k)') = Len(TableAt(k))
                      /\ \A i \in DOMAIN TableAt(k) :
                            IF TableAt(k)[i].userId = NULL
                            THEN TableAt(k)'[i] =
                                   [TableAt(k)[i] EXCEPT !.userId = migration.user]
                            ELSE TableAt(k)'[i] = TableAt(k)[i]
                 ELSE TableAt(k)' = TableAt(k)
        /\ (migration.pc = "timer" /\ migration' # migration) =>
              /\ migrated' = migrated
              /\ settings' = settings
              /\ IF LegacyUserPresent
                 THEN /\ migration'.pc = "update"
                      /\ \E i \in DOMAIN users :
                            /\ users[i].id = migration'.user
                            /\ users[i].email = ToLowerCase(RISHAV_EMAIL)
                 ELSE migration'.pc = "done"
        /\ (migration'.pc = "done" /\ migration'.user # NULL) => NoUnowned'
        /\ migration.pc = "done" => migration' = migration
      ]_vars

\* the updates have run: the rows that had no owner belong to the legacy
\* user, next to the rows of u2
C20_Witness ==
    /\ migration.pc = "done"
    /\ migration.user = "u1"
    /\ \E row \in Range(notes) : row.id = "g1" /\ row.userId = "u1"
    /\ \E row \in Range(notes) : row.id = "o1" /\ row.userId = "u2"
    /\ \E row \in Range(tasks) : row.id = "g1" /\ row.userId = "u2"

(***************************************************************************)
(* SpecStartup: app.listen accepts requests from the start, while the      *)
(* timer of the migration is still pending                                 *)
(***************************************************************************)
\* GET /api/tasks of a registered user, and the callback of its query
ListTasks(userId) ==
    /\ userId \in Ids(users)
    /\ reply' = Reply("GET /api/tasks", userId, NULL, 200, GetTasks(userId))

NextStartup ==
    \/ NextMigrate
    \/ \E userId \in UserIds :
          /\ ListTasks(userId)
          /\ UNCHANGED <<migrated, settings, migration, users, regReqs, authReply,
                         taskReqs, project_tasks, research_notes, projReqs,
                         ideaReqs, convReqs, engReqs, noteReqs, restReqs,
                         incoming, appTask, appIdeas, converting, appEngagements,
                         viewState, itemsToDelete, isAddModalOpen, confirms,
                         appOther, clock>>

SpecStartup == InitMigrate /\ [][NextStartup]_vars

\* rows without an owner wait for the migration to give them to the legacy
\* user
OrphansUnassigned == LegacyUserPresent /\ ~NoUnowned

\* this step answers a list request
ListServed == reply' # reply /\ reply'.route = "GET /api/tasks"

\* C21: the migration has completed before the server handles a request
\* that runs a userId-scoped query: no list request is served from a state
\* in which rows of the legacy user are still unassigned.
C21_Claim == [][ ListServed => ~OrphansUnassigned ]_vars

(***************************************************************************)
(* The responses of POST /api/projects, and DELETE /api/projects/:id       *)
(***************************************************************************)
\* the callback of the upsert of the parent row with its response: the
\* child statements are queued without callbacks and 'Project synced' is
\* sent whatever becomes of them
PostProjectsSynced(r) ==
    /\ PostProjectsChildren(r)
    /\ reply' = Reply("POST /api/projects", r.userId, r.p.id, 200, <<>>)

DeleteProjectReq(userId, id, pc) == [userId |-> userId, id |-> id, pc |-> pc]

\* the callback of the ownership lookup
DeleteProjectsVerify(r) ==
    /\ r \in projReqs
    /\ r.pc = "verify"
    /\ IF \E i \in DOMAIN projects :
             projects[i].id = r.id /\ projects[i].userId = r.userId
       THEN /\ projReqs' = (projReqs \ {r}) \cup
                              {DeleteProjectReq(r.userId, r.id, "delete")}
            /\ UNCHANGED reply
       ELSE /\ projReqs' = projReqs \ {r}
            /\ reply' = Reply("DELETE /api/projects", r.userId, r.id, 404, <<>>)
    /\ UNCHANGED storeProj

\* the serialized deletes, and the callback of the last: { deleted: changes }
DeleteProjectsRun(r) ==
    /\ r \in projReqs
    /\ r.pc = "delete"
    /\ project_tasks' = DeleteChildren(project_tasks, r.id)
    /\ research_notes' = DeleteChildren(research_notes, r.id)
    /\ projects' = DeleteFrom(projects, r.id, r.userId)
    /\ projReqs' = projReqs \ {r}
    /\ reply' = Reply("DELETE /api/projects", r.userId, r.id, 200,
                      <<Len(projects) - Len(projects')>>)

(***************************************************************************)
(* SpecSync: project saves and deletes with their responses                *)
(***************************************************************************)
\* two projects whose task arrays share the id t1
SyncedProjects ==
    { InternalProject("p1", "n", <<PT("t1", "a", FALSE)>>, <<RN("n1", "x")>>),
      InternalProject("p1", "n", <<>>, <<>>),
      InternalProject("p2", "n", <<PT("t1", "b", TRUE), PT("t2", "a", FALSE)>>, <<>>) }

SendDeleteProject(userId, id) ==
    /\ Cardinality(projReqs) < MaxInFlight
    /\ projReqs' = projReqs \cup {DeleteProjectReq(userId, id, "verify")}
    /\ UNCHANGED storeProj

\* the state that the project routes never touch
notSync == <<tasks, taskReqs, appTask, ideas, ideaReqs, convReqs, appIdeas,
             converting, engVars, noteVars, otherVars>>

NextSync ==
    \/ \E p \in SyncedProjects :
          /\ SendProject(Me, p)
          /\ UNCHANGED <<reply, notSync>>
    \/ \E id \in ProjectIds :
          /\ SendDeleteProject(Me, id)
          /\ UNCHANGED <<reply, notSync>>
    \/ \E r \in projReqs :
          /\ PostProjectsParent(r)
          /\ UNCHANGED <<reply, notSync>>
    \/ \E r \in projReqs :
          /\ PostProjectsSynced(r)
          /\ UNCHANGED notSync
    \/ \E r \in projReqs :
          /\ DeleteProjectsVerify(r)
          /\ UNCHANGED notSync
    \/ \E r \in projReqs :
          /\ DeleteProjectsRun(r)
          /\ UNCHANGED notSync

SpecSync == InitTask /\ [][NextSync]_vars

\* every child row that the save r is to insert is stored
ChildrenStored(r) ==
    /\ \A t \in Range(r.p.tasks) : ProjectTaskRow(r.p, t) \in Range(project_tasks)
    /\ \A n \in Range(r.p.researchNotes) :
          ResearchNoteRow(r.p, n) \in Range(research_notes)

\* C22: every storage error of a statement that a request executes is
\* reported with status 500: a project save whose child inserts did not all
\* succeed is not answered with a success status.
C22_Claim ==
    [][ \A r \in projReqs :
           (r.pc = "children" /\ r \notin projReqs' /\ ~ChildrenStored(r)') =>
               reply'.status = 500 ]_vars

(***************************************************************************)
(* The DELETE endpoints of the entities with a single statement            *)
(***************************************************************************)
\* DELETE /api/<entity>/:id, for the seven entities other than projects
DeleteReq(userId, table, id) ==
    RestReq("DELETE", userId, [table |-> table, id |-> id])

\* the table named, after DELETE FROM table WHERE id = ? AND userId = ?
DeletedFrom(rows, name, r) ==
    IF r.body.table = name THEN DeleteFrom(rows, r.body.id, r.userId) ELSE rows

\* the statement and its callback, which answers with success whatever the
\* number of rows deleted ({ deleted: this.changes } or { message: 'Deleted' })
DeleteById(r) ==
    /\ r \in restReqs
    /\ r.route = "DELETE"
    /\ engagements' = DeletedFrom(engagements, "engagements", r)
    /\ tasks' = DeletedFrom(tasks, "tasks", r)
    /\ highlights' = DeletedFrom(highlights, "highlights", r)
    /\ ideas' = DeletedFrom(ideas, "ideas", r)
    /\ calendar_events' = DeletedFrom(calendar_events, "calendar_events", r)
    /\ useful_links' = DeletedFrom(useful_links, "useful_links", r)
    /\ notes' = DeletedFrom(notes, "notes", r)
    /\ restReqs' = restReqs \ {r}
    /\ reply' = Reply(<<"DELETE", r.body.table>>, r.userId, r.body.id, 200, <<>>)

(***************************************************************************)
(* SpecOwn: two users delete by id; one table holds a row of each of them  *)
(***************************************************************************)
\* the row of the table for the object with the id, owned by userId
RowOf(name, userId, id) ==
    CASE name = "engagements" -> EngagementRow(userId, Object("engagements", id, "a"))
      [] name = "tasks" -> TaskRow(userId, Task(id, "a", FALSE, NULL, NULL))
      [] name = "projects" -> ProjectRow(userId, Object("projects", id, "a"))
      [] name = "highlights" -> HighlightRow(userId, Object("highlights", id, "a"))
      [] name = "ideas" -> IdeaRow(userId, Object("ideas", id, "a"))
      [] name = "calendar_events" -> CalendarEventRow(userId, Object("events", id, "a"))
      [] name = "useful_links" -> UsefulLinkRow(userId, UsefulLink(id, "a"))
      [] name = "notes" -> NoteRow(userId, Object("notes", id, "a"))

\* the rows of the table named: those of u1 and u2 when it is the one filled
Filled(name, filled) ==
    IF name = filled THEN <<RowOf(name, "u1", "x1"), RowOf(name, "u2", "x2")>>
    ELSE <<>>

InitOwn ==
    /\ Idle
    /\ RestIdle
    /\ users = <<>> /\ settings = <<>>
    /\ research_notes = <<>>
    /\ \E filled \in Range(MigratedTables) :
          /\ engagements = Filled("engagements", filled)
          /\ tasks = Filled("tasks", filled)
          /\ projects = Filled("projects", filled)
          /\ highlights = Filled("highlights", filled)
          /\ ideas = Filled("ideas", filled)
          /\ calendar_events = Filled("calendar_events", filled)
          /\ useful_links = Filled("useful_links", filled)
          /\ notes = Filled("notes", filled)
          /\ project_tasks =
                IF filled = "projects"
                THEN <<ProjectTaskRow([id |-> "x1"], PT("t1", "a", FALSE)),
                       ProjectTaskRow([id |-> "x2"], PT("t2", "a", FALSE))>>
                ELSE <<>>

\* the ids asked for: of the row of u1, and of no row
AskedIds == {"x1", "x9"}

\* the state that the DELETE endpoints never touch
notOwn == <<taskReqs, appTask, ideaReqs, convReqs, appIdeas, converting,
            engReqs, appEngagements, viewState, itemsToDelete, isAddModalOpen,
            confirms, noteReqs, userVars, migration, appOther, settings, clock>>

NextOwn ==
    \/ \E userId \in Users, name \in Range(MigratedTables) \ {"projects"},
          id \in AskedIds :
          /\ Cardinality(restReqs) + Cardinality(projReqs) < MaxConverting
          /\ restReqs' = restReqs \cup {DeleteReq(userId, name, id)}
          /\ UNCHANGED <<migrated, storeProj, projReqs, reply, notOwn>>
    \/ \E userId \in Users, id \in AskedIds :
          /\ Cardinality(restReqs) + Cardinality(projReqs) < MaxConverting
          /\ projReqs' = projReqs \cup {DeleteProjectReq(userId, id, "verify")}
          /\ UNCHANGED <<migrated, project_tasks, research_notes, restReqs,
                         reply, notOwn>>
    \/ \E r \in restReqs :
          /\ DeleteById(r)
          /\ UNCHANGED <<storeProj, projReqs, notOwn>>
    \/ \E r \in projReqs :
          /\ DeleteProjectsVerify(r)
          /\ UNCHANGED <<engagements, tasks, highlights, ideas, calendar_events,
                         useful_links, notes, restReqs, notOwn>>
    \/ \E r \in projReqs :
          /\ DeleteProjectsRun(r)
          /\ UNCHANGED <<engagements, tasks, highlights, ideas, calendar_events,
                         useful_links, notes, restReqs, notOwn>>

SpecOwn == InitOwn /\ [][NextOwn]_vars

\* the position of the table in MigratedTables
TableIndex(name) == CHOOSE k \in DOMAIN MigratedTables : MigratedTables[k] = name

\* userId owns a row with the id in the table named
Owns(userId, name, id) ==
    \E row \in Range(TableAt(TableIndex(name))) :
        row.id = id /\ row.userId = userId

\* C23: a delete request for an id that the requester does not own is
\* answered 404 and deletes no row, for the DELETE endpoint of every entity.
C23_Claim ==
    [][ /\ \A r \in restReqs :
              (r \notin restReqs' /\ ~Owns(r.userId, r.body.table, r.body.id)) =>
                 /\ reply'.status = 404
                 /\ migrated' = migrated
        /\ \A r \in projReqs :
              (r \notin projReqs' /\ r.pc = "verify"
                 /\ ~Owns(r.userId, "projects", r.id)) =>
                 /\ reply'.status = 404
                 /\ migrated' = migrated
                 /\ project_tasks' = project_tasks
      ]_vars

\* the same with the status left out: no row is deleted
C23_NoRowDeleted ==
    [][ /\ \A r \in restReqs :
              (r \notin restReqs' /\ ~Owns(r.userId, r.body.table, r.body.id)) =>
                 migrated' = migrated
        /\ \A r \in projReqs :
              (r \notin projReqs' /\ r.pc = "verify"
                 /\ ~Owns(r.userId, "projects", r.id)) =>
                 /\ reply'.status = 404
                 /\ migrated' = migrated
                 /\ project_tasks' = project_tasks
      ]_vars

(***************************************************************************)
(* A conversion whose UPDATE of the idea fails                             *)
(***************************************************************************)
\* the err branch of the UPDATE with the inserted project taken back
ConvertUpdateFailsRollback(r) ==
    /\ r \in convReqs
    /\ r.pc = "update"
    /\ projects' = DeleteFrom(projects, r.projectId, r.userId)
    /\ convReqs' = convReqs \ {r}
    /\ Respond(r, 500, <<>>)
    /\ UNCHANGED ideas

\* the UPDATE of the idea raises a storage error: its callback answers 500
ConvertUpdateFails(r) ==
    /\ r \in convReqs
    /\ r.pc = "update"
    /\ convReqs' = convReqs \ {r}
    /\ Respond(r, 500, <<>>)
    /\ UNCHANGED <<projects, ideas>>

(***************************************************************************)
(* SpecOrphan: idea saves and conversions, any of whose updates may fail   *)
(***************************************************************************)
NextOrphan ==
    \/ NextConv
    \/ \E r \in convReqs :
          /\ ConvertUpdateFails(r)
          /\ UNCHANGED <<ideaReqs, notConv>>

SpecOrphan == InitConv /\ [][NextOrphan]_vars

\* C24: when the project insert of a conversion succeeded and the update of
\* the idea fails, the request is answered 500, the new project row stays
\* in projects with sourceIdeaId set to the idea's id, and the idea row is
\* unchanged; no step removes a project.
C24_Orphan ==
    [][ /\ \A r \in convReqs : (Runs(r) /\ r.pc = "update") =>
              IF ideas' = StampIdeas(ideas, r.projectId, r.ideaId, r.userId)
                 /\ reply'.status = 200
              THEN TRUE
              ELSE /\ reply'.status = 500
                   /\ reply'.to = <<r.userId, r.ideaId>>
                   /\ ideas' = ideas
                   /\ \E row \in Range(projects') :
                         /\ row.id = r.projectId
                         /\ row.sourceIdeaId = r.ideaId
        /\ \A row \in Range(projects) : row \in Range(projects')
      ]_vars

\* a conversion was answered 500 and left its project behind, next to the
\* idea that is still not converted
C24_Witness ==
    /\ reply.route = "convert-to-project"
    /\ reply.status = 500
    /\ \E row \in Range(projects) : row.sourceIdeaId = reply.to[2]
    /\ \E i \in Range(ideas) :
          /\ i.id = reply.to[2]
          /\ i.convertedToProjectId = NULL
          /\ i.status = "New"

(***************************************************************************)
(* A failing request of a client handler                                   *)
(***************************************************************************)
\* the response to the delete request r arrives in this step
Settled(r) == r \in engReqs /\ r.kind = "delete" /\ r \notin engReqs'

\* C25 (as claimed): when the request of a client mutation fails, the
\* optimistic change stays in the local collection and the handler still
\* finishes its remaining steps: a call of handleConfirmDelete ends only
\* with the last of its requests, and it ends with itemsToDelete = null and
\* the view it leaves after its deletes.
C25_Claim ==
    [][ \A r \in engReqs : Settled(r) =>
          /\ appEngagements' = appEngagements
          /\ \A c \in Awaiting(r) : Ends(c) =>
                /\ c.waiting = {r.id}
                /\ AfterDeletes(c)
      ]_vars

\* without the failing response every call ends with its remaining steps
C25_WhenRequestsSucceed ==
    [][ (\A r \in engReqs : ~DeleteEngagementFails(r)) =>
          \A r \in engReqs : Settled(r) =>
             /\ appEngagements' = appEngagements
             /\ \A c \in Awaiting(r) : Ends(c) =>
                   /\ c.waiting = {r.id}
                   /\ AfterDeletes(c)
      ]_vars

(***************************************************************************)
(* SpecRace: concurrent saves of the same project                          *)
(***************************************************************************)
\* the bodies submitted for project p1: they differ in a parent field and in
\* the child arrays
RacingProjects ==
    { InternalProject("p1", "a", <<>>, <<>>),
      InternalProject("p1", "b", <<PT("t1", "a", FALSE)>>, <<RN("n1", "x")>>),
      InternalProject("p1", "c", <<PT("t1", "b", TRUE), PT("t2", "a", FALSE)>>,
                      <<>>),
      InternalProject("p1", "d", <<PT("t2", "a", TRUE)>>,
                      <<RN("n2", "y"), RN("n1", "x")>>) }

NextRace ==
    \/ \E p \in RacingProjects :
          /\ SendProject(Me, p)
          /\ UNCHANGED <<tasks, taskReqs, appTask, notTask>>
    \/ \E r \in projReqs :
          /\ PostProjectsParent(r)
          /\ UNCHANGED <<tasks, taskReqs, appTask, notTask>>
    \/ \E r \in projReqs :
          /\ PostProjectsChildren(r)
          /\ UNCHANGED <<tasks, taskReqs, appTask, notTask>>

SpecRace == InitProj /\ [][NextRace]_vars

\* the parent row and the child rows of p.id are those that the save of p
\* by userId writes
StoredAsSaved(userId, p) ==
    /\ SelectSeq(projects, LAMBDA row : row.id = p.id) = <<ProjectRow(userId, p)>>
    /\ SelectSeq(project_tasks, LAMBDA row : row.projectId = p.id)
          = [i \in DOMAIN p.tasks |-> ProjectTaskRow(p, p.tasks[i])]
    /\ SelectSeq(research_notes, LAMBDA row : row.projectId = p.id)
          = [i \in DOMAIN p.researchNotes |->
                 ResearchNoteRow(p, p.researchNotes[i])]

\* C26 (as claimed): when the save requests for project p1 have all
\* finished, the stored parent fields, project tasks and research notes of
\* p1 all come from the same one of the submitted requests (last write
\* wins).
C26_Claim ==
    (projReqs = {} /\ "p1" \in Ids(projects))
       => \E p \in RacingProjects : StoredAsSaved(Me, p)

\* a save that ran with no other request in flight is stored whole
C26_WhenAlone ==
    [][ \A r \in projReqs :
          (SaveCompletes(r) /\ projReqs = {r}
             /\ SelectSeq(projects, LAMBDA row : row.id = r.p.id)
                   = <<ProjectRow(r.userId, r.p)>>)
            => StoredAsSaved(r.userId, r.p)'
      ]_vars

(***************************************************************************)
(* GET /api/settings/:key                                                  *)
(***************************************************************************)
GetSettings(userId, key) ==
    LET hits == SelectSeq(settings, LAMBDA row : row.key = <<userId, key>>)
    IN  IF hits = <<>> THEN NULL ELSE JSONparse(hits[1].value)

(***************************************************************************)
(* SpecIso: user u1 holds rows and a setting and sends nothing; user u2    *)
(* sends upserts, deletes, project saves and conversions, with the ids of  *)
(* u1's rows among the ids it names                                        *)
(***************************************************************************)
Other == "u2"

\* the ids that u2 names: that of the row of u1
ReusedIds == {"x1"}

\* <<route, body, table>>
OtherBodies ==
    { <<"highlights", Object("highlights", id, "b"), "highlights">> :
          id \in ReusedIds } \cup
    { <<"calendar", Object("events", id, "b"), "calendar_events">> :
          id \in ReusedIds } \cup
    { <<"links", UsefulLink(id, "b"), "useful_links">> : id \in ReusedIds } \cup
    { <<"POST /api/settings/:key",
        [key |-> "tabOrder", value |-> JArr(<<JStr("ideas")>>)], "settings">> }

\* the requests of u2 go to the tables that hold rows, and to the settings
InUse(name) ==
    \/ name = "settings"
    \/ \E k \in DOMAIN MigratedTables :
          MigratedTables[k] = name /\ TableAt(k) # <<>>

\* a save or a delete of the project with the id
OtherProjectReq(id, pc) ==
    IF pc = "parent"
    THEN ProjectReq(Other, InternalProject(id, "b", <<PT("t3", "b", FALSE)>>, <<>>),
                    "parent")
    ELSE DeleteProjectReq(Other, id, "verify")

InFlightIso ==
    Cardinality(engReqs) + Cardinality(taskReqs) + Cardinality(ideaReqs)
       + Cardinality(noteReqs) + Cardinality(restReqs) + Cardinality(projReqs)
       + Cardinality(convReqs)

InitIso ==
    /\ Idle
    /\ RestIdle
    /\ users = <<>>
    /\ settings = << [key |-> <<Me, "tabOrder">>,
                      value |-> JSONstringify(JArr(<<JStr("home")>>)),
                      userId |-> Me] >>
    /\ research_notes = <<>>
    /\ \E filled \in Range(MigratedTables) :
          /\ engagements = Filled("engagements", filled)
          /\ tasks = Filled("tasks", filled)
          /\ projects = Filled("projects", filled)
          /\ highlights = Filled("highlights", filled)
          /\ ideas = Filled("ideas", filled)
          /\ calendar_events = Filled("calendar_events", filled)
          /\ useful_links = Filled("useful_links", filled)
          /\ notes = Filled("notes", filled)
          /\ project_tasks =
                IF filled = "projects"
                THEN <<ProjectTaskRow([id |-> "x1"], PT("t1", "a", FALSE)),
                       ProjectTaskRow([id |-> "x2"], PT("t2", "a", FALSE))>>
                ELSE <<>>

\* the state of the clients and of the accounts, which no route of the
\* entities touches
notIso == <<appTasks, appProjects, appIdeas, appEngagements, viewState,
           itemsToDelete, isAddModalOpen, confirms, last, users, regReqs,
           incoming, authReply, migration, appOther, clock>>

NextIso ==
    \/ \E id \in ReusedIds :
          /\ InFlightIso < MaxConverting
          /\ InUse("engagements")
          /\ engReqs' = engReqs \cup {SaveEngagementReq(Other, Object("engagements", id, "b"))}
          /\ UNCHANGED <<projects, project_tasks, research_notes, tasks, ideas,
                       engagements, notes, projReqs, taskReqs, ideaReqs,
                       convReqs, noteReqs, reply, converting, highlights,
                       calendar_events, useful_links, restReqs, settings,
                       notIso>>
    \/ \E id \in ReusedIds :
          /\ InFlightIso < MaxConverting
          /\ InUse("tasks")
          /\ taskReqs' = taskReqs \cup {TaskReq(Other, Task(id, "b", FALSE, NULL, NULL))}
          /\ UNCHANGED <<projects, project_tasks, research_notes, tasks, ideas,
                       engagements, notes, projReqs, ideaReqs, convReqs,
                       engReqs, noteReqs, reply, converting, highlights,
                       calendar_events, useful_links, restReqs, settings,
                       notIso>>
    \/ \E id \in ReusedIds :
          /\ InFlightIso < MaxConverting
          /\ InUse("ideas")
          /\ ideaReqs' = ideaReqs \cup {IdeaReq(Other, Object("ideas", id, "b"))}
          /\ UNCHANGED <<projects, project_tasks, research_notes, tasks, ideas,
                       engagements, notes, projReqs, taskReqs, convReqs,
                       engReqs, noteReqs, reply, converting, highlights,
                       calendar_events, useful_links, restReqs, settings,
                       notIso>>
    \/ \E id \in ReusedIds :
          /\ InFlightIso < MaxConverting
          /\ InUse("notes")
          /\ noteReqs' = noteReqs \cup {NoteReq(Other, Object("notes", id, "b"))}
          /\ UNCHANGED <<projects, project_tasks, research_notes, tasks, ideas,
                       engagements, notes, projReqs, taskReqs, ideaReqs,
                       convReqs, engReqs, reply, converting, highlights,
                       calendar_events, useful_links, restReqs, settings,
                       notIso>>
    \/ \E b \in OtherBodies :
          /\ InFlightIso < MaxConverting
          /\ InUse(b[3])
          /\ restReqs' = restReqs \cup {RestReq(b[1], Other, b[2])}
          /\ UNCHANGED <<projects, project_tasks, research_notes, tasks, ideas,
                       engagements, notes, projReqs, taskReqs, ideaReqs,
                       convReqs, engReqs, noteReqs, reply, converting,
                       highlights, calendar_events, useful_links, settings,
                       notIso>>
    \/ \E id \in ReusedIds, name \in Range(MigratedTables) \ {"projects"} :
          /\ InFlightIso < MaxConverting
          /\ InUse(name)
          /\ restReqs' = restReqs \cup {DeleteReq(Other, name, id)}
          /\ UNCHANGED <<projects, project_tasks, research_notes, tasks, ideas,
                       engagements, notes, projReqs, taskReqs, ideaReqs,
                       convReqs, engReqs, noteReqs, reply, converting,
                       highlights, calendar_events, useful_links, settings,
                       notIso>>
    \/ \E id \in ReusedIds, pc \in {"parent", "verify"} :
          /\ InFlightIso < MaxConverting
          /\ InUse("projects")
          /\ projReqs' = projReqs \cup {OtherProjectReq(id, pc)}
          /\ UNCHANGED <<projects, project_tasks, research_notes, tasks, ideas,
                       engagements, notes, taskReqs, ideaReqs, convReqs,
                       engReqs, noteReqs, reply, converting, highlights,
                       calendar_events, useful_links, restReqs, settings,
                       notIso>>
    \/ \E ideaId \in ReusedIds, projectData \in ConvBodies :
          /\ InFlightIso < MaxConverting
          /\ InUse("ideas")
          /\ convReqs' = convReqs \cup {ConvReq(Other, ideaId, projectData, FALSE)}
          /\ UNCHANGED <<projects, project_tasks, research_notes, tasks, ideas,
                       engagements, notes, projReqs, taskReqs, ideaReqs,
                       engReqs, noteReqs, reply, converting, highlights,
                       calendar_events, useful_links, restReqs, settings,
                       notIso>>
    \/ \E r \in engReqs :
          /\ PostEngagements(r)
          /\ UNCHANGED <<projects, project_tasks, research_notes, tasks, ideas,
                       notes, projReqs, taskReqs, ideaReqs, convReqs,
                       noteReqs, reply, converting, highlights,
                       calendar_events, useful_links, restReqs, settings,
                       notIso>>
    \/ \E r \in taskReqs :
          /\ PostTasks(r)
          /\ UNCHANGED <<projects, project_tasks, research_notes, ideas,
                       engagements, notes, projReqs, ideaReqs, convReqs,
                       engReqs, noteReqs, reply, converting, highlights,
                       calendar_events, useful_links, restReqs, settings,
                       notIso>>
    \/ \E r \in ideaReqs :
          /\ PostIdeas(r)
          /\ UNCHANGED <<projects, project_tasks, research_notes, tasks,
                       engagements, notes, projReqs, taskReqs, convReqs,
                       engReqs, noteReqs, converting, highlights,
                       calendar_events, useful_links, restReqs, settings,
                       notIso>>
    \/ \E r \in noteReqs :
          /\ PostNotes(r)
          /\ UNCHANGED <<projects, project_tasks, research_notes, tasks, ideas,
                       engagements, projReqs, taskReqs, ideaReqs, convReqs,
                       engReqs, reply, converting, highlights,
                       calendar_events, useful_links, restReqs, settings,
                       notIso>>
    \/ \E r \in restReqs :
          /\ PostHighlights(r)
          /\ UNCHANGED <<projects, project_tasks, research_notes, tasks, ideas,
                       engagements, notes, projReqs, taskReqs, ideaReqs,
                       convReqs, engReqs, noteReqs, reply, converting,
                       calendar_events, useful_links, settings, notIso>>
    \/ \E r \in restReqs :
          /\ PostCalendar(r)
          /\ UNCHANGED <<projects, project_tasks, research_notes, tasks, ideas,
                       engagements, notes, projReqs, taskReqs, ideaReqs,
                       convReqs, engReqs, noteReqs, reply, converting,
                       highlights, useful_links, settings, notIso>>
    \/ \E r \in restReqs :
          /\ PostLinks(r)
          /\ UNCHANGED <<projects, project_tasks, research_notes, tasks, ideas,
                       engagements, notes, projReqs, taskReqs, ideaReqs,
                       convReqs, engReqs, noteReqs, reply, converting,
                       highlights, calendar_events, settings, notIso>>
    \/ \E r \in restReqs :
          /\ PostSettings(r)
          /\ UNCHANGED <<projects, project_tasks, research_notes, tasks, ideas,
                       engagements, notes, projReqs, taskReqs, ideaReqs,
                       convReqs, engReqs, noteReqs, reply, converting,
                       highlights, calendar_events, useful_links, notIso>>
    \/ \E r \in restReqs :
          /\ DeleteById(r)
          /\ UNCHANGED <<projects, project_tasks, research_notes, projReqs,
                       taskReqs, ideaReqs, convReqs, engReqs, noteReqs,
                       converting, settings, notIso>>
    \/ \E r \in projReqs :
          /\ PostProjectsParent(r)
          /\ UNCHANGED <<tasks, ideas, engagements, notes, taskReqs, ideaReqs,
                       convReqs, engReqs, noteReqs, reply, converting,
                       highlights, calendar_events, useful_links, restReqs,
                       settings, notIso>>
    \/ \E r \in projReqs :
          /\ PostProjectsChildren(r)
          /\ UNCHANGED <<tasks, ideas, engagements, notes, taskReqs, ideaReqs,
                       convReqs, engReqs, noteReqs, reply, converting,
                       highlights, calendar_events, useful_links, restReqs,
                       settings, notIso>>
    \/ \E r \in projReqs :
          /\ DeleteProjectsVerify(r)
          /\ UNCHANGED <<tasks, ideas, engagements, notes, taskReqs, ideaReqs,
                       convReqs, engReqs, noteReqs, converting, highlights,
                       calendar_events, useful_links, restReqs, settings,
                       notIso>>
    \/ \E r \in projReqs :
          /\ DeleteProjectsRun(r)
          /\ UNCHANGED <<tasks, ideas, engagements, notes, taskReqs, ideaReqs,
                       convReqs, engReqs, noteReqs, converting, highlights,
                       calendar_events, useful_links, restReqs, settings,
                       notIso>>
    \/ \E r \in convReqs :
          /\ ConvertLookup(r)
          /\ UNCHANGED <<project_tasks, research_notes, tasks, engagements,
                       notes, projReqs, taskReqs, ideaReqs, engReqs,
                       noteReqs, highlights, calendar_events, useful_links,
                       restReqs, settings, notIso>>
    \/ \E r \in convReqs :
          /\ ConvertInsert(r)
          /\ UNCHANGED <<project_tasks, research_notes, tasks, engagements,
                       notes, projReqs, taskReqs, ideaReqs, engReqs,
                       noteReqs, highlights, calendar_events, useful_links,
                       restReqs, settings, notIso>>
    \/ \E r \in convReqs :
          /\ ConvertUpdate(r)
          /\ UNCHANGED <<project_tasks, research_notes, tasks, engagements,
                       notes, projReqs, taskReqs, ideaReqs, engReqs,
                       noteReqs, highlights, calendar_events, useful_links,
                       restReqs, settings, notIso>>

SpecIso == InitIso /\ [][NextIso]_vars

\* what the list endpoints and the settings endpoint return to userId
ListsOf(userId) ==
    <<GetEngagements(userId), GetTasks(userId), GetProjects(userId),
      GetHighlights(userId), GetIdeas(userId), GetCalendar(userId),
      GetLinks(userId), GetNotes(userId), GetSettings(userId, "tabOrder")>>

\* C27 (as claimed): no request made by user u2 changes what any list
\* endpoint returns to user u1, also when the request reuses an entity id
\* or a project id that u1 owns.
C27_Claim == [][ ListsOf(Me)' = ListsOf(Me) ]_vars

\* a delete, a conversion or a settings write of u2 is answered in this step
NoUpsertAnswered ==
    \/ \E r \in restReqs :
          r \notin restReqs' /\ r.route \in {"DELETE", "POST /api/settings/:key"}
    \/ \E r \in projReqs : r \notin projReqs' /\ r.pc \in {"verify", "delete"}
    \/ convReqs' # convReqs

\* the deletes, conversions and settings writes of u2 leave the lists of u1
\* as they are
C27_DeletesAndConversions ==
    [][ NoUpsertAnswered => ListsOf(Me)' = ListsOf(Me) ]_vars

(***************************************************************************)
(* The ids of the client's collection and of the server's table            *)
(***************************************************************************)
\* C28 (as claimed): once every request issued by the add and delete
\* handlers has completed, the set of ids that the server stores for the
\* standalone tasks equals the set of ids in the client's task collection,
\* also when the save of an add and the delete that follows it were in
\* flight together and reached the server in either order.
C28_Claim ==
    (taskReqs = {} /\ projReqs = {}) => Ids(GetTasks(Me)) = Ids(appTasks)

(***************************************************************************)
(* The parents of the child rows                                           *)
(***************************************************************************)
\* C29 (as claimed): in every reachable server state every row of
\* project_tasks and research_notes has a projectId that names an existing
\* row of projects, also when a save and a delete of the same project
\* overlap.
C29_Claim ==
    \A row \in Range(project_tasks) \cup Range(research_notes) :
       row.projectId \in Ids(projects)

\* a child row without its project is written only by a save whose project
\* was deleted between its two steps
C29_OnlyAfterDelete ==
    [][ \A r \in projReqs :
          (r.pc = "children" /\ r \notin projReqs' /\ r.p.id \in Ids(projects))
             => (C29_Claim => C29_Claim')
      ]_vars

(***************************************************************************)
(* EngagementDetail: a task created for the engagement that is open, and   *)
(* the load of App after a reload                                          *)
(***************************************************************************)
\* obj[f] of JavaScript: undefined for a property that the object lacks
Undefined == "undefined"

Field(obj, f) == IF f \in DOMAIN obj THEN obj[f] ELSE Undefined

\* handleCreateTask of the detail view of engagement, with the id that
\* generateId returns
HandleCreateTask(engagement, newTaskContent, id) ==
    /\ Trim(newTaskContent) # ""
    /\ HandleAddTask([Task(id, Trim(newTaskContent), FALSE, NULL, NULL) EXCEPT
                         !.engagementId = engagement.id,
                         !.engagementName = engagement.name])

\* App is constructed again and loadData sets the collections from the
\* list endpoints
LoadData ==
    /\ appEngagements' = GetEngagements(Me)
    /\ appTasks' = GetTasks(Me)
    /\ appProjects' = GetProjects(Me)
    /\ appIdeas' = GetIdeas(Me)
    /\ appOther' = [highlights |-> GetHighlights(Me), events |-> GetCalendar(Me),
                    links |-> GetLinks(Me), notes |-> GetNotes(Me),
                    editingEngagement |-> <<>>]
    /\ viewState' = [tab |-> "home", view |-> "dashboard", targetId |-> NULL]
    /\ itemsToDelete' = NULL
    /\ isAddModalOpen' = FALSE
    /\ confirms' = {}
    /\ converting' = <<>>

(***************************************************************************)
(* SpecLink: tasks created in the detail view of a loaded engagement       *)
(***************************************************************************)
InitLink == InitUpdate /\ appEngagements # <<>>

NewTaskContents == {"a", " ", "b"}
NewTaskIds == {"s1", "s2"}

NextLink ==
    \/ \E k \in {1, 2}, c \in NewTaskContents, id \in NewTaskIds :
          /\ k \in DOMAIN appEngagements
          /\ id \notin Ids(appTasks)
          /\ HandleCreateTask(appEngagements[k], c, id)
          /\ UNCHANGED <<storeProj, tasks, notTask>>
    \/ \E r \in taskReqs :
          /\ PostTasks(r)
          /\ UNCHANGED <<storeProj, projReqs, appTask, notTask>>
    \/ /\ LoadData
       /\ UNCHANGED <<storeProj, tasks, ideas, engagements, notes, projReqs,
                      taskReqs, ideaReqs, convReqs, engReqs, noteReqs, reply,
                      last, restVars, userVars, migration, settings, clock>>

SpecLink == InitLink /\ [][NextLink]_vars

\* C30 (as claimed): a standalone task saved through POST /api/tasks with
\* engagementId and engagementName set is returned by the next GET
\* /api/tasks with the same engagementId and the same engagementName.
C30_Claim ==
    [][ \A r \in taskReqs :
          (r \notin taskReqs' /\ r.t.engagementId # NULL) =>
             \A t \in {Listed(GetTasks(r.userId), r.t.id)'} :
                /\ Field(t, "engagementId") = r.t.engagementId
                /\ Field(t, "engagementName") = r.t.engagementName
      ]_vars

\* the engagementId alone does come back, also into the reloaded client
C30_EngagementId ==
    [][ /\ \A r \in taskReqs :
              (r \notin taskReqs' /\ r.t.engagementId # NULL) =>
                 Listed(GetTasks(r.userId), r.t.id)'.engagementId
                    = r.t.engagementId
        /\ LoadData =>
              \A t \in Range(appTasks') : t.engagementId \in Ids(engagements)
      ]_vars

====
